---- MODULE Spec2Model ----
(***************************************************************************)
(* A model of static_frame/core/archive_zip.py: the read-only ZIP archive  *)
(* engine (ZipFileRO, _SharedFileRO, ZipFilePartRO and the end-of-archive  *)
(* locator).  The byte source is a sequence of bytes (0..255); records are *)
(* decoded from it at the byte offsets of the struct formats of the source.*)
(* Python exceptions are modelled as the value of an "exc" field.          *)
(***************************************************************************)
EXTENDS Integers, Sequences, FiniteSets, TLC

VARIABLES
    disk,       \* the bytes of the underlying byte source
    fd,         \* the physical descriptor: position, closed flag, close calls
    pc,         \* "new" before ZipFileRO(...), then "live" or "failed"
    zf,         \* the fields of the ZipFileRO object (its __slots__)
    parts,      \* the ZipFilePartRO objects returned by ZipFileRO.open
    last,       \* the outcome of the last call made by the client
    hist,       \* ghost: what the last call found and left behind
    out,        \* ghost: per reader, the bytes its reads have delivered
    shared      \* _SharedFileRO objects used on their own (SharedSpec)

vars == <<disk, fd, pc, zf, parts, last, hist, out, shared>>

-----------------------------------------------------------------------------
(* Bounds of the model *)

MaxParts == 2           \* Entry Readers issued by one Archive Handle
MaxReadArg == 1         \* largest bounded read(n) argument tried
MaxSeekArg == 2         \* largest seek(offset, whence) offset tried
MaxPrefix == 2          \* most bytes of other data before an archive
MaxComment == 2         \* longest archive comment
MaxPeekArg == 2         \* largest peek(n) argument tried

-----------------------------------------------------------------------------
(* Program constants *)

ZIP_STORED == 0
_END_ARCHIVE_STRING == <<80, 75, 5, 6>>
_END_ARCHIVE_SIZE == 22
_CENTRAL_DIR_STRING == <<80, 75, 1, 2>>
_CENTRAL_DIR_SIZE == 46
_FILE_HEADER_STRING == <<80, 75, 3, 4>>
_FILE_HEADER_SIZE == 30
_END_ARCHIVE64_LOCATOR_STRING == <<80, 75, 6, 7>>
_END_ARCHIVE64_LOCATOR_SIZE == 20
_END_ARCHIVE64_STRING == <<80, 75, 6, 6>>
_END_ARCHIVE64_SIZE == 56
_MASK_ENCRYPTED == 1
_MASK_COMPRESSED_PATCH == 32
_MASK_STRONG_ENCRYPTION == 64
_MASK_UTF_FILENAME == 2048
MAX_N == 1073741824
MIN_READ_SIZE == 4096
MAX_SEEK_READ == 16777216
ZIP_MAX_COMMENT_WINDOW == 65536

-----------------------------------------------------------------------------
(* Bytes and the struct module *)

Min(a, b) == IF a < b THEN a ELSE b
Max(a, b) == IF a > b THEN a ELSE b

\* b[i:j] of Python for 0 <= i, on a sequence of bytes (0-based, j exclusive)
Slice(b, i, j) == SubSeq(b, i + 1, Min(j, Len(b)))

\* b[i:] of Python
SliceFrom(b, i) == SubSeq(b, i + 1, Len(b))

\* struct.unpack of a little-endian "H" field at byte offset i
UnpackH(b, i) == b[i + 1] + 256 * b[i + 2]

\* struct.unpack of a little-endian "L" field at byte offset i
UnpackL(b, i) == UnpackH(b, i) + 65536 * UnpackH(b, i + 2)

\* struct.unpack of a little-endian "Q" field at byte offset i
UnpackQ(b, i) ==
    IF UnpackL(b, i + 4) = 0 THEN UnpackL(b, i)
    ELSE UnpackL(b, i) + 65536 * 65536 * UnpackL(b, i + 4)

\* (flags & mask) == 1 in place of the truth test of flags & mask
HasBit_low(flags, mask) == mask = 1 /\ flags % 2 = 1

\* flags & mask for a one-bit mask
HasBit(flags, mask) == (flags \div mask) % 2 = 1

\* bytes.decode('cp437'): code points of the bytes 128..255
Cp437High ==
  << 199, 252, 233, 226, 228, 224, 229, 231,
     234, 235, 232, 239, 238, 236, 196, 197,
     201, 230, 198, 244, 246, 242, 251, 249,
     255, 214, 220, 162, 163, 165, 8359, 402,
     225, 237, 243, 250, 241, 209, 170, 186,
     191, 8976, 172, 189, 188, 161, 171, 187,
     9617, 9618, 9619, 9474, 9508, 9569, 9570, 9558,
     9557, 9571, 9553, 9559, 9565, 9564, 9563, 9488,
     9492, 9524, 9516, 9500, 9472, 9532, 9566, 9567,
     9562, 9556, 9577, 9574, 9568, 9552, 9580, 9575,
     9576, 9572, 9573, 9561, 9560, 9554, 9555, 9579,
     9578, 9496, 9484, 9608, 9604, 9612, 9616, 9600,
     945, 223, 915, 960, 931, 963, 181, 964,
     934, 920, 937, 948, 8734, 966, 949, 8745,
     8801, 177, 8805, 8804, 8992, 8993, 247, 8776,
     176, 8729, 183, 8730, 8319, 178, 9632, 160 >>

DecodeCp437(b) ==
    [exc |-> "None",
     str |-> [i \in 1..Len(b) |->
                 IF b[i] < 128 THEN b[i] ELSE Cp437High[b[i] - 127]]]

IsCont(x) == x >= 128 /\ x <= 191

\* number of bytes of the UTF-8 sequence that starts at b[i], 0 if invalid
Utf8Len(b, i) ==
    LET x == b[i]
        has(k) == i + k <= Len(b) /\ IsCont(b[i + k])
    IN  IF x < 128 THEN 1
        ELSE IF x >= 194 /\ x <= 223 /\ has(1) THEN 2
        ELSE IF x >= 224 /\ x <= 239 /\ has(1) /\ has(2)
                /\ (x = 224 => b[i + 1] >= 160)
                /\ (x = 237 => b[i + 1] <= 159) THEN 3
        ELSE IF x >= 240 /\ x <= 244 /\ has(1) /\ has(2) /\ has(3)
                /\ (x = 240 => b[i + 1] >= 144)
                /\ (x = 244 => b[i + 1] <= 143) THEN 4
        ELSE 0

Utf8Point(b, i, k) ==
    IF k = 1 THEN b[i]
    ELSE IF k = 2 THEN (b[i] - 192) * 64 + (b[i + 1] - 128)
    ELSE IF k = 3 THEN (b[i] - 224) * 4096 + (b[i + 1] - 128) * 64
                       + (b[i + 2] - 128)
    ELSE (b[i] - 240) * 262144 + (b[i + 1] - 128) * 4096
         + (b[i + 2] - 128) * 64 + (b[i + 3] - 128)

RECURSIVE Utf8From(_, _)
Utf8From(b, i) ==
    IF i > Len(b) THEN [exc |-> "None", str |-> <<>>]
    ELSE LET k == Utf8Len(b, i)
         IN  IF k = 0 THEN [exc |-> "UnicodeDecodeError", str |-> <<>>]
             ELSE LET rest == Utf8From(b, i + k)
                  IN  IF rest.exc # "None" THEN rest
                      ELSE [exc |-> "None",
                            str |-> <<Utf8Point(b, i, k)>> \o rest.str]

\* bytes.decode('utf-8')
DecodeUtf8(b) == Utf8From(b, 1)

\* the filename decoding rule of the directory and of the local header
DecodeName(b, flags) ==
    IF HasBit(flags, _MASK_UTF_FILENAME) THEN DecodeUtf8(b) ELSE DecodeCp437(b)

\* data.rfind(sig): 0-based index of the last occurrence, -1 if none
Rfind(data, sig) ==
    LET hits == {i \in 0..(Len(data) - Len(sig)) :
                    SubSeq(data, i + 1, i + Len(sig)) = sig}
    IN  IF hits = {} THEN -1
        ELSE CHOOSE i \in hits : \A j \in hits : j <= i

-----------------------------------------------------------------------------
(* The byte sources the model is run on.  An archive is laid out as         *)
(* prefix, local records, central directory, end record, comment; the      *)
(* records are packed field by field as the struct formats of the source   *)
(* unpack them.                                                            *)

PackH(v) == <<v % 256, (v \div 256) % 256>>
PackL(v) == PackH(v % 65536) \o PackH(v \div 65536)

\* one archive member as written to the source; at >= 0 writes no local
\* record and makes the directory point at that offset
Member(cname, lname, cflags, lflags, cmethod, lmethod, data, extra, lsig, at) ==
    [cname |-> cname, lname |-> lname, cflags |-> cflags, lflags |-> lflags,
     cmethod |-> cmethod, lmethod |-> lmethod, data |-> data,
     extra |-> extra, lsig |-> lsig, at |-> at,
     csize |-> Len(data), usize |-> Len(data)]

\* a member whose directory entry declares sizes of its own
Sized(m, csize, usize) == [m EXCEPT !.csize = csize, !.usize = usize]

Stored(name, data, extra) ==
    Member(name, name, 0, 0, ZIP_STORED, ZIP_STORED, data, extra,
           _FILE_HEADER_STRING, -1)

\* _FILE_HEADER_STRUCT "<4s2B4HL2L2H" followed by name, extra field and data
LocalRecord(m) ==
    IF m.at >= 0 THEN <<>>
    ELSE m.lsig \o <<20, 0>> \o PackH(m.lflags) \o PackH(m.lmethod)
         \o PackH(0) \o PackH(0) \o PackL(0)
         \o PackL(Len(m.data)) \o PackL(Len(m.data))
         \o PackH(Len(m.lname)) \o PackH(Len(m.extra))
         \o m.lname \o m.extra \o m.data

\* _CENTRAL_DIR_STRUCT "<4s4B4HL2L5H2L" followed by the name
CentralRecord(m, offset) ==
    _CENTRAL_DIR_STRING \o <<20, 0, 20, 0>> \o PackH(m.cflags)
    \o PackH(m.cmethod) \o PackH(0) \o PackH(0) \o PackL(0)
    \o PackL(m.csize) \o PackL(m.usize)
    \o PackH(Len(m.cname)) \o PackH(0) \o PackH(0) \o PackH(0) \o PackH(0)
    \o PackL(0) \o PackL(IF m.at >= 0 THEN m.at ELSE offset)
    \o m.cname

\* _END_ARCHIVE_STRUCT "<4s4H2LH" followed by the comment
EndRecord(n, size_cd, offset_cd, comment) ==
    _END_ARCHIVE_STRING \o PackH(0) \o PackH(0) \o PackH(n) \o PackH(n)
    \o PackL(size_cd) \o PackL(offset_cd) \o PackH(Len(comment)) \o comment

RECURSIVE BodyBytes(_)
BodyBytes(ms) ==
    IF ms = <<>> THEN <<>>
    ELSE BodyBytes(SubSeq(ms, 1, Len(ms) - 1)) \o LocalRecord(ms[Len(ms)])

RECURSIVE DirBytes(_)
DirBytes(ms) ==
    IF ms = <<>> THEN <<>>
    ELSE DirBytes(SubSeq(ms, 1, Len(ms) - 1))
         \o CentralRecord(ms[Len(ms)],
                          Len(BodyBytes(SubSeq(ms, 1, Len(ms) - 1))))

ArchiveBytes(prefix, ms, comment) ==
    prefix \o BodyBytes(ms) \o DirBytes(ms)
    \o EndRecord(Len(ms), Len(DirBytes(ms)), Len(BodyBytes(ms)), comment)

BadSig == <<80, 75, 3, 5>>

\* two well-formed stored members, the second with an extra field
GoodMembers ==
    << Stored(<<97>>, <<104, 105>>, <<>>),                           \* a
       Stored(<<98>>, <<111>>, <<7>>) >>                             \* b

\* one well-formed member and one member per defect open() checks
DefectMembers ==
    << Stored(<<97>>, <<104>>, <<>>),                                \* a
       Member(<<101>>, <<101>>, 1, 0, 0, 0, <<1>>, <<>>,
              _FILE_HEADER_STRING, -1),                              \* e
       Member(<<112>>, <<112>>, 32, 0, 0, 0, <<2>>, <<>>,
              _FILE_HEADER_STRING, -1),                              \* p
       Member(<<115>>, <<115>>, 64, 0, 0, 0, <<3>>, <<>>,
              _FILE_HEADER_STRING, -1),                              \* s
       Member(<<109>>, <<110>>, 0, 0, 0, 0, <<4>>, <<>>,
              _FILE_HEADER_STRING, -1),                              \* m
       Member(<<103>>, <<103>>, 0, 0, 0, 0, <<5>>, <<>>, BadSig, -1), \* g
       Member(<<116>>, <<116>>, 0, 0, 0, 0, <<6>>, <<>>,
              _FILE_HEADER_STRING, 9999),                            \* t
       Member(<<120>>, <<110>>, 1, 0, 0, 0, <<7>>, <<>>,
              _FILE_HEADER_STRING, -1),                              \* x
       Member(<<121>>, <<121>>, 32, 0, 0, 0, <<8>>, <<>>, BadSig, -1), \* y
       Member(<<117>>, <<255>>, 0, 2048, 0, 0, <<11>>, <<>>,
              _FILE_HEADER_STRING, -1) >>                            \* u

\* a member whose local header alone declares the deflate method, and one
\* whose directory entry declares fewer uncompressed than compressed bytes
LaxMembers ==
    << Member(<<108>>, <<108>>, 0, 0, 0, 8, <<9, 9>>, <<>>,
              _FILE_HEADER_STRING, -1),                              \* l
       Sized(Stored(<<107>>, <<120, 121>>, <<>>), 2, 1) >>           \* k

\* a directory entry that declares a compression method other than stored
DeflatedMembers ==
    << Stored(<<97>>, <<104, 105>>, <<>>),
       Member(<<100>>, <<100>>, 0, 0, 8, 8, <<12, 13>>, <<>>,
              _FILE_HEADER_STRING, -1) >>                            \* d

\* the same with a member whose header stores another name than its flagged
\* directory entry, and one whose header stores its name as UTF-8 and whose
\* directory entry stores it as cp437
HeaderMembers ==
    DefectMembers
    \o << Member(<<118>>, <<110>>, 32, 0, 0, 0, <<12>>, <<>>,
                 _FILE_HEADER_STRING, -1),                           \* v
          Member(<<130>>, <<195, 169>>, 0, 2048, 0, 0, <<13>>, <<>>,
                 _FILE_HEADER_STRING, -1) >>                         \* w

HeaderArchive == ArchiveBytes(<<>>, HeaderMembers, <<>>)

GoodArchive == ArchiveBytes(<<>>, GoodMembers, <<>>)
DefectArchive == ArchiveBytes(<<>>, DefectMembers, <<>>)
LaxArchive == ArchiveBytes(<<>>, LaxMembers, <<>>)
DeflatedArchive == ArchiveBytes(<<>>, DeflatedMembers, <<>>)
ShortGarbage == <<1, 2, 3, 4, 5>>
LongGarbage == [i \in 1..40 |-> 65]

Sources == {GoodArchive, DefectArchive, LaxArchive, DeflatedArchive,
            ShortGarbage, LongGarbage}

\* a name no archive holds
MissingName == <<122>>

\* struct.pack of a "Q" field; the values written are below 2^31
PackQ(v) == PackL(v) \o PackL(0)

\* _END_ARCHIVE_STRUCT with the two disk fields chosen
EndRecordOn(disk_number, disk_start, n, size_cd, offset_cd, comment) ==
    _END_ARCHIVE_STRING \o PackH(disk_number) \o PackH(disk_start)
    \o PackH(n) \o PackH(n) \o PackL(size_cd) \o PackL(offset_cd)
    \o PackH(Len(comment)) \o comment

\* _END_ARCHIVE64_STRUCT "<4sQ2H2L4Q"
End64Record(disk_num, disk_dir, n, size_cd, offset_cd) ==
    _END_ARCHIVE64_STRING \o PackQ(44) \o PackH(45) \o PackH(45)
    \o PackL(disk_num) \o PackL(disk_dir) \o PackQ(n) \o PackQ(n)
    \o PackQ(size_cd) \o PackQ(offset_cd)

\* _END_ARCHIVE64_LOCATOR_STRUCT "<4sLQL"
End64Locator(diskno, reloff, disks) ==
    _END_ARCHIVE64_LOCATOR_STRING \o PackL(diskno) \o PackQ(reloff)
    \o PackL(disks)

\* N bytes of other data before the archive: the start of an end record
PrefixBytes(N) == [i \in 1..N |-> _END_ARCHIVE_STRING[((i - 1) % 4) + 1]]

\* an archive comment of k bytes, none of them of the signature
CommentBytes(k) == [i \in 1..k |-> 99 + i]

GoodBody == BodyBytes(GoodMembers)
GoodDir == DirBytes(GoodMembers)

\* the well-formed archive after N bytes of other data, with a comment of k
\* bytes; the offsets it declares are those it had before the N bytes
PlainArchive(N, k) ==
    ArchiveBytes(PrefixBytes(N), GoodMembers, CommentBytes(k))

\* the same with ZIP64 end records, which alone declare the directory
Zip64Archive(N, k) ==
    PrefixBytes(N) \o GoodBody \o GoodDir
    \o End64Record(0, 0, Len(GoodMembers), Len(GoodDir), Len(GoodBody))
    \o End64Locator(0, Len(GoodBody) + Len(GoodDir), 1)
    \o EndRecord(Len(GoodMembers), 0, 0, CommentBytes(k))

\* the value of an "L" field that holds the bytes of the end signature
SignatureAsOffset == UnpackL(_END_ARCHIVE_STRING, 0)

\* an archive whose end record declares its directory at that offset (an
\* archive with that many bytes of entries), with a comment of k bytes
EmbeddedArchive(k) ==
    GoodBody \o GoodDir
    \o EndRecord(Len(GoodMembers), Len(GoodDir), SignatureAsOffset,
                 CommentBytes(k))

\* an empty archive after N bytes of other data
EmptyArchive(N) == PrefixBytes(N) \o EndRecord(0, 0, 0, <<>>)

\* N bytes, a ZIP64 locator and the end record of an empty archive: the
\* source is too short to hold a ZIP64 end record before the locator
TruncatedArchive(N) ==
    PrefixBytes(N) \o End64Locator(0, 0, 1) \o EndRecord(0, 0, 0, <<>>)

\* archives that span several disks: by the ZIP64 locator (disks 2, then
\* disk number 1), by the end record, by the ZIP64 end record
MultiDiskArchives ==
    { GoodBody \o GoodDir
      \o End64Record(0, 0, Len(GoodMembers), Len(GoodDir), Len(GoodBody))
      \o End64Locator(lc[1], Len(GoodBody) + Len(GoodDir), lc[2])
      \o EndRecord(Len(GoodMembers), 0, 0, <<>>) : lc \in {<<0, 2>>, <<1, 1>>} }
    \cup
    { GoodBody \o GoodDir
      \o EndRecordOn(1, 1, Len(GoodMembers), Len(GoodDir), Len(GoodBody), <<>>),
      GoodBody \o GoodDir
      \o End64Record(1, 1, Len(GoodMembers), Len(GoodDir), Len(GoodBody))
      \o End64Locator(0, Len(GoodBody) + Len(GoodDir), 1)
      \o EndRecord(Len(GoodMembers), 0, 0, <<>>) }

\* three members of which the first and the last have the same name
DuplicateMembers ==
    << Stored(<<97>>, <<104, 105>>, <<>>),                           \* a
       Stored(<<98>>, <<111>>, <<>>),                                \* b
       Stored(<<97>>, <<120, 121, 122>>, <<>>) >>                    \* a

DuplicateArchive == ArchiveBytes(<<>>, DuplicateMembers, <<>>)

\* sources that hold no end signature: an empty one, short ones, and local
\* records with a directory but no end record
Unsigned == {<<>>, ShortGarbage, LongGarbage, GoodBody \o GoodDir}

\* the well-formed local records followed by dir as the directory
DirectoryArchive(dir) ==
    GoodBody \o dir
    \o EndRecord(Len(GoodMembers), Len(dir), Len(GoodBody), <<>>)

BadDirSig == <<80, 75, 1, 3>>

\* the directory record of the first well-formed member
FirstRecord == CentralRecord(GoodMembers[1], 0)

\* directories with a record of another signature (the first, the second)
\* and directories that end 1 or 45 bytes into a record (the third, the
\* first)
DamagedDirectories ==
    { BadDirSig \o SliceFrom(GoodDir, 4),
      FirstRecord \o BadDirSig \o SliceFrom(GoodDir, Len(FirstRecord) + 4),
      GoodDir \o Slice(GoodDir, 0, 1),
      GoodDir \o Slice(GoodDir, 0, _CENTRAL_DIR_SIZE - 1),
      Slice(GoodDir, 0, _CENTRAL_DIR_SIZE - 1) }

DamagedArchives == {DirectoryArchive(dir) : dir \in DamagedDirectories}

\* the well-formed directory whose last record declares, at byte at of the
\* record (28 name, 30 extra field, 32 comment), a length of v bytes
Overrun(at, v) == [GoodDir EXCEPT ![Len(FirstRecord) + at + 1] = v]

\* directories whose last record declares more bytes of name, of extra
\* field or of comment than the directory holds
OverrunArchives ==
    {DirectoryArchive(Overrun(at, 3)) : at \in {28, 30, 32}}

\* an end record that declares a directory larger than the bytes before it
NegativeStartArchive ==
    GoodBody \o GoodDir
    \o EndRecord(Len(GoodMembers), Len(GoodBody) + Len(GoodDir) + 1, 0, <<>>)

\* the well-formed archive whose end record declares a directory of size
\* bytes: the directory read is the last size bytes before the end record
ShortenedArchive(size) ==
    GoodBody \o GoodDir
    \o EndRecord(Len(GoodMembers), size, Len(GoodBody), <<>>)

\* the sources the directory is located and parsed on
DirectorySources ==
    {PlainArchive(N, k) : N \in 0..MaxPrefix, k \in 0..MaxComment}
    \cup {Zip64Archive(N, k) : N \in 0..MaxPrefix, k \in 0..MaxComment}
    \cup {EmbeddedArchive(k) : k \in 0..MaxComment}
    \cup {EmptyArchive(N) : N \in 0..MaxPrefix}
    \cup {TruncatedArchive(N) : N \in 0..MaxPrefix}
    \cup MultiDiskArchives
    \cup {DuplicateArchive}
    \cup Unsigned
    \cup DamagedArchives
    \cup OverrunArchives
    \cup {NegativeStartArchive}
    \cup {ShortenedArchive(size) : size \in 0..Len(GoodDir)}

\* members whose directory entries declare fewer compressed than
\* uncompressed bytes, and fewer uncompressed than compressed bytes
SizedMembers ==
    << Sized(Stored(<<99>>, <<120, 121>>, <<>>), 2, 3),              \* c
       Sized(Stored(<<107>>, <<119, 120, 121>>, <<>>), 3, 1) >>      \* k

SizedArchive == ArchiveBytes(<<>>, SizedMembers, <<>>)

\* a directory entry of 3 bytes whose local record, with 2 bytes of data,
\* is the archive comment, the last bytes of the source
ShortMember ==
    Sized(Member(<<113>>, <<113>>, 0, 0, ZIP_STORED, ZIP_STORED, <<>>, <<>>,
                 _FILE_HEADER_STRING,
                 _CENTRAL_DIR_SIZE + 1 + _END_ARCHIVE_SIZE), 3, 3)   \* q

ShortArchive ==
    DirBytes(<<ShortMember>>)
    \o EndRecord(1, Len(DirBytes(<<ShortMember>>)), 0,
                 LocalRecord(Stored(<<113>>, <<122, 121>>, <<>>)))

\* the sources the readers are exercised on
ReaderSources == {GoodArchive, SizedArchive, ShortArchive}

-----------------------------------------------------------------------------
(* The byte source: a Python file object.  kind "file" is a file opened    *)
(* from a path (a negative target of seek raises OSError), kind "bytesio"  *)
(* an in-memory buffer (a negative absolute target raises ValueError, a    *)
(* negative relative target is clamped to 0).                              *)

Ok(f) == [exc |-> "None", f |-> f, data |-> <<>>]
Raise(e, f) == [exc |-> e, f |-> f, data |-> <<>>]

FileSeek(d, f, offset, whence) ==
    LET target == IF whence = 0 THEN offset
                  ELSE IF whence = 1 THEN f.pos + offset
                  ELSE Len(d) + offset
    IN  IF f.closed THEN Raise("ValueError", f)
        ELSE IF target >= 0 THEN Ok([f EXCEPT !.pos = target])
        ELSE IF f.kind = "file" THEN Raise("OSError", f)
        ELSE IF whence = 0 THEN Raise("ValueError", f)
        ELSE Ok([f EXCEPT !.pos = 0])

\* file.read(n); a negative n reads to the end of the source
FileRead(d, f, n) ==
    IF f.closed THEN Raise("ValueError", f)
    ELSE LET stop == IF n < 0 THEN Len(d) ELSE Min(f.pos + n, Len(d))
             data == IF f.pos >= stop THEN <<>> ELSE SubSeq(d, f.pos + 1, stop)
         IN  [exc |-> "None", f |-> [f EXCEPT !.pos = @ + Len(data)],
              data |-> data]

FileClose(f) == [f EXCEPT !.closed = TRUE, !.closes = @ + 1]

-----------------------------------------------------------------------------
(* The end-of-archive locator *)

NoEndRec == [none |-> TRUE]

\* list(struct.unpack(_END_ARCHIVE_STRUCT, data)) + [comment, location]
UnpackEndRec(data, comment, location) ==
    [none |-> FALSE,
     sig |-> SubSeq(data, 1, 4),
     disk_number |-> UnpackH(data, 4),
     disk_start |-> UnpackH(data, 6),
     entries_this_disk |-> UnpackH(data, 8),
     entries_total |-> UnpackH(data, 10),
     size |-> UnpackL(data, 12),
     offset |-> UnpackL(data, 16),
     comment_size |-> UnpackH(data, 20),
     comment |-> comment,
     location |-> location]

EndOk(endrec, f) == [exc |-> "None", endrec |-> endrec, f |-> f]
EndRaise(e, f) == [exc |-> e, endrec |-> NoEndRec, f |-> f]

\* the ZIP64 end record (lines 270-298); r2 is the outcome of reading it
_end_archive_update_zip64_record(endrec, r2) ==
    IF r2.exc # "None" THEN EndRaise(r2.exc, r2.f)
    ELSE IF Len(r2.data) # _END_ARCHIVE64_SIZE THEN EndOk(endrec, r2.f)
    ELSE IF SubSeq(r2.data, 1, 4) # _END_ARCHIVE64_STRING
         THEN EndOk(endrec, r2.f)
    ELSE EndOk([endrec EXCEPT
                   !.sig = SubSeq(r2.data, 1, 4),
                   !.disk_number = UnpackL(r2.data, 16),
                   !.disk_start = UnpackL(r2.data, 20),
                   !.entries_this_disk = UnpackQ(r2.data, 24),
                   !.entries_total = UnpackQ(r2.data, 32),
                   !.size = UnpackQ(r2.data, 40),
                   !.offset = UnpackQ(r2.data, 48)], r2.f)

\* the ZIP64 locator (lines 257-270); r1 is the outcome of reading it
_end_archive_update_zip64_locator(d, offset, endrec, r1) ==
    LET s2 == FileSeek(d, r1.f,
                 offset - _END_ARCHIVE64_LOCATOR_SIZE - _END_ARCHIVE64_SIZE, 2)
    IN  IF r1.exc # "None" THEN EndRaise(r1.exc, r1.f)
        ELSE IF Len(r1.data) # _END_ARCHIVE64_LOCATOR_SIZE
             THEN EndOk(endrec, r1.f)
        ELSE IF SubSeq(r1.data, 1, 4) # _END_ARCHIVE64_LOCATOR_STRING
             THEN EndOk(endrec, r1.f)
        ELSE IF UnpackL(r1.data, 4) # 0 \/ UnpackL(r1.data, 16) > 1
             THEN EndRaise("BadZipFile", r1.f)
        ELSE IF s2.exc # "None" THEN EndRaise(s2.exc, s2.f)
        ELSE _end_archive_update_zip64_record(endrec,
                 FileRead(d, s2.f, _END_ARCHIVE64_SIZE))

_end_archive_update_zip64(d, f, offset, endrec) ==
    LET s1 == FileSeek(d, f, offset - _END_ARCHIVE64_LOCATOR_SIZE, 2)
    IN  IF s1.exc = "OSError" THEN EndOk(endrec, s1.f)
        ELSE IF s1.exc # "None" THEN EndRaise(s1.exc, s1.f)
        ELSE _end_archive_update_zip64_locator(d, offset, endrec,
                 FileRead(d, s1.f, _END_ARCHIVE64_LOCATOR_SIZE))

\* the search of the comment window that leaves the comment out
_extract_end_archive_search_bare(d, filesize, comment_max_start, r2) ==
    LET start == Rfind(r2.data, _END_ARCHIVE_STRING)
        recData == Slice(r2.data, start, start + _END_ARCHIVE_SIZE)
    IN  IF r2.exc # "None" THEN EndRaise(r2.exc, r2.f)
        ELSE IF start >= 0
             THEN IF Len(recData) # _END_ARCHIVE_SIZE
                  THEN EndOk(NoEndRec, r2.f)
                  ELSE _end_archive_update_zip64(d, r2.f,
                           comment_max_start + start - filesize,
                           UnpackEndRec(recData, <<>>,
                                        comment_max_start + start))
        ELSE EndOk(NoEndRec, r2.f)

\* the search of the comment window (lines 341-362); r2 is the outcome of
\* reading from comment_max_start to the end
_extract_end_archive_search(d, filesize, comment_max_start, r2) ==
    LET start == Rfind(r2.data, _END_ARCHIVE_STRING)
        recData == Slice(r2.data, start, start + _END_ARCHIVE_SIZE)
        comment == Slice(r2.data, start + _END_ARCHIVE_SIZE,
                         start + _END_ARCHIVE_SIZE + UnpackH(recData, 20))
    IN  IF r2.exc # "None" THEN EndRaise(r2.exc, r2.f)
        ELSE IF start >= 0
             THEN IF Len(recData) # _END_ARCHIVE_SIZE
                  THEN EndOk(NoEndRec, r2.f)
                  ELSE _end_archive_update_zip64(d, r2.f,
                           comment_max_start + start - filesize,
                           UnpackEndRec(recData, comment,
                                        comment_max_start + start))
        ELSE EndOk(NoEndRec, r2.f)

\* the fast path with the end of the source as the place of the record
_extract_end_archive_tail_at_end(d, filesize, r1) ==
    LET comment_max_start ==
            Max(filesize - ZIP_MAX_COMMENT_WINDOW - _END_ARCHIVE_SIZE, 0)
        s2 == FileSeek(d, r1.f, comment_max_start, 0)
    IN  IF r1.exc # "None" THEN EndRaise(r1.exc, r1.f)
        ELSE IF /\ Len(r1.data) = _END_ARCHIVE_SIZE
                /\ SubSeq(r1.data, 1, 4) = _END_ARCHIVE_STRING
                /\ SubSeq(r1.data, 21, 22) = <<0, 0>>
             THEN _end_archive_update_zip64(d, r1.f, 0 - _END_ARCHIVE_SIZE,
                      UnpackEndRec(r1.data, <<>>, filesize))
        ELSE IF s2.exc # "None" THEN EndRaise(s2.exc, s2.f)
        ELSE _extract_end_archive_search(d, filesize, comment_max_start,
                 FileRead(d, s2.f, -1))

\* the record at the very end of the source (lines 321-339); r1 is the
\* outcome of reading the last _END_ARCHIVE_SIZE bytes
_extract_end_archive_tail(d, filesize, r1) ==
    LET comment_max_start ==
            Max(filesize - ZIP_MAX_COMMENT_WINDOW - _END_ARCHIVE_SIZE, 0)
        s2 == FileSeek(d, r1.f, comment_max_start, 0)
    IN  IF r1.exc # "None" THEN EndRaise(r1.exc, r1.f)
        ELSE IF /\ Len(r1.data) = _END_ARCHIVE_SIZE
                /\ SubSeq(r1.data, 1, 4) = _END_ARCHIVE_STRING
                /\ SubSeq(r1.data, 21, 22) = <<0, 0>>
             THEN _end_archive_update_zip64(d, r1.f, 0 - _END_ARCHIVE_SIZE,
                      UnpackEndRec(r1.data, <<>>,
                                   filesize - _END_ARCHIVE_SIZE))
        ELSE IF s2.exc # "None" THEN EndRaise(s2.exc, s2.f)
        ELSE _extract_end_archive_search(d, filesize, comment_max_start,
                 FileRead(d, s2.f, -1))

\* lines 309-321; s0 is the outcome of fpin.seek(0, 2)
_extract_end_archive_sized(d, s0) ==
    LET s1 == FileSeek(d, s0.f, 0 - _END_ARCHIVE_SIZE, 2)
    IN  IF s0.exc # "None" THEN EndRaise(s0.exc, s0.f)
        ELSE IF s1.exc = "OSError" THEN EndOk(NoEndRec, s1.f)
        ELSE IF s1.exc # "None" THEN EndRaise(s1.exc, s1.f)
        ELSE _extract_end_archive_tail(d, s0.f.pos, FileRead(d, s1.f, -1))

_extract_end_archive(d, f) ==
    _extract_end_archive_sized(d, FileSeek(d, f, 0, 2))

-----------------------------------------------------------------------------
(* ZipFileRO: the directory parser *)

ZipInfoRO(filename, flag_bits, header_offset, compress_size, file_size) ==
    [filename |-> filename, flag_bits |-> flag_bits,
     header_offset |-> header_offset, compress_size |-> compress_size,
     file_size |-> file_size]

\* a table that keeps the first entry stored under a name
DictSet_first(tab, zinfo) ==
    IF \E i \in DOMAIN tab : tab[i].filename = zinfo.filename THEN tab
    ELSE Append(tab, zinfo)

\* self._name_to_info[zinfo.filename] = zinfo on an insertion-ordered dict
DictSet(tab, zinfo) ==
    IF \E i \in DOMAIN tab : tab[i].filename = zinfo.filename
    THEN [i \in DOMAIN tab |->
             IF tab[i].filename = zinfo.filename THEN zinfo ELSE tab[i]]
    ELSE Append(tab, zinfo)

HasName(tab, name) == \E i \in DOMAIN tab : tab[i].filename = name

\* self._name_to_info.get(name) for a name that is present
DictGet(tab, name) == tab[CHOOSE i \in DOMAIN tab : tab[i].filename = name]

RECURSIVE ParseDirectory(_, _, _, _, _, _)
\* the loop that ends at a record it cannot decode and keeps the entries
\* read so far
ParseDirectory_lenient(data, p, total, size_cd, concat, tab) ==
    IF ~(total < size_cd) THEN [exc |-> "None", tab |-> tab]
    ELSE
    LET cdir == Slice(data, Min(p, Len(data)), p + _CENTRAL_DIR_SIZE)
        filename_length == UnpackH(cdir, 28)
        raw == Slice(data, Min(p + _CENTRAL_DIR_SIZE, Len(data)),
                     p + _CENTRAL_DIR_SIZE + filename_length)
        flags == UnpackH(cdir, 8)
        name == DecodeName(raw, flags)
        extra_length == UnpackH(cdir, 30)
        comment_length == UnpackH(cdir, 32)
        compress_type == UnpackH(cdir, 10)
        zinfo == ZipInfoRO(name.str, flags, UnpackL(cdir, 42) + concat,
                           UnpackL(cdir, 20), UnpackL(cdir, 24))
        step == _CENTRAL_DIR_SIZE + filename_length + extra_length
                + comment_length
    IN  IF Len(cdir) # _CENTRAL_DIR_SIZE
        THEN [exc |-> "None", tab |-> tab]
        ELSE IF SubSeq(cdir, 1, 4) # _CENTRAL_DIR_STRING
        THEN [exc |-> "None", tab |-> tab]
        ELSE IF name.exc # "None" THEN [exc |-> name.exc, tab |-> tab]
        ELSE IF compress_type # ZIP_STORED
        THEN [exc |-> "AssertionError", tab |-> tab]
        ELSE ParseDirectory(data, Min(p + step, Len(data)), total + step,
                            size_cd, concat, DictSet(tab, zinfo))

\* the loop that refuses a record whose lengths run past the declared size
ParseDirectory_strict(data, p, total, size_cd, concat, tab) ==
    IF ~(total < size_cd) THEN [exc |-> "None", tab |-> tab]
    ELSE
    LET cdir == Slice(data, Min(p, Len(data)), p + _CENTRAL_DIR_SIZE)
        filename_length == UnpackH(cdir, 28)
        raw == Slice(data, Min(p + _CENTRAL_DIR_SIZE, Len(data)),
                     p + _CENTRAL_DIR_SIZE + filename_length)
        flags == UnpackH(cdir, 8)
        name == DecodeName(raw, flags)
        extra_length == UnpackH(cdir, 30)
        comment_length == UnpackH(cdir, 32)
        compress_type == UnpackH(cdir, 10)
        zinfo == ZipInfoRO(name.str, flags, UnpackL(cdir, 42) + concat,
                           UnpackL(cdir, 20), UnpackL(cdir, 24))
        step == _CENTRAL_DIR_SIZE + filename_length + extra_length
                + comment_length
    IN  IF Len(cdir) # _CENTRAL_DIR_SIZE
        THEN [exc |-> "BadZipFile", tab |-> tab]
        ELSE IF SubSeq(cdir, 1, 4) # _CENTRAL_DIR_STRING
        THEN [exc |-> "BadZipFile", tab |-> tab]
        ELSE IF name.exc # "None" THEN [exc |-> name.exc, tab |-> tab]
        ELSE IF compress_type # ZIP_STORED
        THEN [exc |-> "AssertionError", tab |-> tab]
        ELSE IF total + step > size_cd
        THEN [exc |-> "BadZipFile", tab |-> tab]
        ELSE ParseDirectory(data, Min(p + step, Len(data)), total + step,
                            size_cd, concat, DictSet(tab, zinfo))

\* the while loop of _read_contents over the directory bytes; p is the
\* position of the BytesIO the directory was read into
ParseDirectory(data, p, total, size_cd, concat, tab) ==
    IF ~(total < size_cd) THEN [exc |-> "None", tab |-> tab]
    ELSE
    LET cdir == Slice(data, Min(p, Len(data)), p + _CENTRAL_DIR_SIZE)
        filename_length == UnpackH(cdir, 28)
        raw == Slice(data, Min(p + _CENTRAL_DIR_SIZE, Len(data)),
                     p + _CENTRAL_DIR_SIZE + filename_length)
        flags == UnpackH(cdir, 8)
        name == DecodeName(raw, flags)
        extra_length == UnpackH(cdir, 30)
        comment_length == UnpackH(cdir, 32)
        compress_type == UnpackH(cdir, 10)
        zinfo == ZipInfoRO(name.str, flags, UnpackL(cdir, 42) + concat,
                           UnpackL(cdir, 20), UnpackL(cdir, 24))
        step == _CENTRAL_DIR_SIZE + filename_length + extra_length
                + comment_length
    IN  IF Len(cdir) # _CENTRAL_DIR_SIZE
        THEN [exc |-> "BadZipFile", tab |-> tab]
        ELSE IF SubSeq(cdir, 1, 4) # _CENTRAL_DIR_STRING
        THEN [exc |-> "BadZipFile", tab |-> tab]
        ELSE IF name.exc # "None" THEN [exc |-> name.exc, tab |-> tab]
        ELSE IF compress_type # ZIP_STORED
        THEN [exc |-> "AssertionError", tab |-> tab]
        ELSE ParseDirectory(data, Min(p + step, Len(data)), total + step,
                            size_cd, concat, DictSet(tab, zinfo))

ZfResult(e, z, f) == [exc |-> e, zf |-> z, f |-> f]

\* the directory bytes (lines 1342-1411); r1 is the outcome of reading them
_read_contents_directory(z1, size_cd, concat, r1) ==
    LET pd == ParseDirectory(r1.data, 0, 0, size_cd, concat, z1._name_to_info)
    IN  IF r1.exc # "None" THEN ZfResult(r1.exc, z1, r1.f)
        ELSE ZfResult(pd.exc, [z1 EXCEPT !._name_to_info = pd.tab], r1.f)

\* _read_contents that takes no account of ZIP64 end records in concat
_read_contents_endrec_base(d, z, er) ==
    LET endrec == er.endrec
        concat == endrec.location - endrec.size - endrec.offset
        start_dir == endrec.offset + concat
        z1 == [z EXCEPT !._start_dir = start_dir]
        s1 == FileSeek(d, er.f, start_dir, 0)
    IN  IF er.exc = "OSError" THEN ZfResult("BadZipFile", z, er.f)
        ELSE IF er.exc # "None" THEN ZfResult(er.exc, z, er.f)
        ELSE IF endrec.none THEN ZfResult("BadZipFile", z, er.f)
        ELSE IF start_dir < 0 THEN ZfResult("BadZipFile", z1, er.f)
        ELSE IF s1.exc # "None" THEN ZfResult(s1.exc, z1, s1.f)
        ELSE _read_contents_directory(z1, endrec.size, concat,
                 FileRead(d, s1.f, endrec.size))

\* lines 1318-1342; er is the outcome of _extract_end_archive(fp)
_read_contents_endrec(d, z, er) ==
    LET endrec == er.endrec
        concat0 == endrec.location - endrec.size - endrec.offset
        concat == IF endrec.sig = _END_ARCHIVE64_STRING
                  THEN concat0 - (_END_ARCHIVE64_SIZE
                                  + _END_ARCHIVE64_LOCATOR_SIZE)
                  ELSE concat0
        start_dir == endrec.offset + concat
        z1 == [z EXCEPT !._start_dir = start_dir]
        s1 == FileSeek(d, er.f, start_dir, 0)
    IN  IF er.exc = "OSError" THEN ZfResult("BadZipFile", z, er.f)
        ELSE IF er.exc # "None" THEN ZfResult(er.exc, z, er.f)
        ELSE IF endrec.none THEN ZfResult("BadZipFile", z, er.f)
        ELSE IF start_dir < 0 THEN ZfResult("BadZipFile", z1, er.f)
        ELSE IF s1.exc # "None" THEN ZfResult(s1.exc, z1, s1.f)
        ELSE _read_contents_directory(z1, endrec.size, concat,
                 FileRead(d, s1.f, endrec.size))

_read_contents(d, f, z) ==
    _read_contents_endrec(d, z, _extract_end_archive(d, f))

\* _close that releases the descriptor at every call, not at the last one
ZipFileRO__close_eager(z, f) ==
    IF ~(z._file_ref_count > 0) THEN ZfResult("AssertionError", z, f)
    ELSE LET z1 == [z EXCEPT !._file_ref_count = @ - 1]
         IN  IF ~z1._file_passed
             THEN ZfResult("None", z1, FileClose(f))
             ELSE ZfResult("None", z1, f)

\* _close that drops the reference and never releases the descriptor
ZipFileRO__close_leak(z, f) ==
    IF ~(z._file_ref_count > 0) THEN ZfResult("AssertionError", z, f)
    ELSE ZfResult("None", [z EXCEPT !._file_ref_count = @ - 1], f)

\* _close that releases the descriptor without asking who opened it
ZipFileRO__close_any(z, f) ==
    IF ~(z._file_ref_count > 0) THEN ZfResult("AssertionError", z, f)
    ELSE LET z1 == [z EXCEPT !._file_ref_count = @ - 1]
         IN  IF z1._file_ref_count = 0
             THEN ZfResult("None", z1, FileClose(f))
             ELSE ZfResult("None", z1, f)

\* ZipFileRO._close(file): drop one reference, release the descriptor with
\* the last one unless it was passed in
ZipFileRO__close(z, f) ==
    IF ~(z._file_ref_count > 0) THEN ZfResult("AssertionError", z, f)
    ELSE LET z1 == [z EXCEPT !._file_ref_count = @ - 1]
         IN  IF z1._file_ref_count = 0 /\ ~z1._file_passed
             THEN ZfResult("None", z1, FileClose(f))
             ELSE ZfResult("None", z1, f)

\* __init__ without its except clause and without the error
ZipFileRO_init_except_quiet(rc) == [rc EXCEPT !.exc = "None"]

\* the except clause that closes the file and leaves self._file bound
ZipFileRO_init_except_bound(rc) ==
    LET cl == ZipFileRO__close(rc.zf, rc.f)
    IN  IF rc.exc = "None" THEN rc
        ELSE IF cl.exc # "None" THEN cl
        ELSE ZfResult(rc.exc, cl.zf, cl.f)

\* the except clause of __init__ (lines 1514-1518): the file is closed
\* through _close and the error raised again; rc is the outcome of
\* _read_contents
ZipFileRO_init_except(rc) ==
    LET cl == ZipFileRO__close([rc.zf EXCEPT !._file = "None"], rc.f)
    IN  IF rc.exc = "None" THEN rc
        ELSE IF cl.exc # "None" THEN cl
        ELSE ZfResult(rc.exc, cl.zf, cl.f)

\* ZipFileRO.__init__(file): passed tells a file object from a path
ZipFileRO_init(d, f, passed) ==
    ZipFileRO_init_except(
        _read_contents(d, f, [_start_dir |-> -1, _name_to_info |-> <<>>,
                              _file_passed |-> passed, _file |-> "fp",
                              _file_ref_count |-> 1]))

\* close() without the early return of a handle that is closed already
ZipFileRO_close_again(z, f) ==
    ZipFileRO__close([z EXCEPT !._file = "None"], f)

\* close() that drops its reference and keeps self._file
ZipFileRO_close_keep(z, f) ==
    IF z._file = "None" THEN ZfResult("None", z, f)
    ELSE ZipFileRO__close(z, f)

\* ZipFileRO.close()
ZipFileRO_close(z, f) ==
    IF z._file = "None" THEN ZfResult("None", z, f)
    ELSE ZipFileRO__close([z EXCEPT !._file = "None"], f)

\* the result of a query of the entry table
Answer(e, ret) == [exc |-> e, ret |-> ret]

\* ZipFileRO.namelist(): list(self._name_to_info.keys())
ZipFileRO_namelist(z) ==
    Answer("None", [i \in DOMAIN z._name_to_info |->
                       z._name_to_info[i].filename])

\* ZipFileRO.infolist(): self._name_to_info.values()
ZipFileRO_infolist(z) == Answer("None", z._name_to_info)

\* ZipFileRO.getinfo(name)
ZipFileRO_getinfo(z, name) ==
    IF ~HasName(z._name_to_info, name) THEN Answer("KeyError", <<>>)
    ELSE Answer("None", <<DictGet(z._name_to_info, name)>>)

-----------------------------------------------------------------------------
(* _SharedFileRO: a cursor of its own over the shared descriptor *)

SfResult(e, sf, f, data) == [exc |-> e, sf |-> sf, f |-> f, data |-> data]

_SharedFileRO(pos) == [_file |-> "fp", _pos |-> pos]

_SharedFileRO_seek(sf, d, f, offset, whence) ==
    LET s == FileSeek(d, f, offset, whence)
    IN  IF sf._file = "None" THEN SfResult("AttributeError", sf, f, <<>>)
        ELSE IF s.exc # "None" THEN SfResult(s.exc, sf, s.f, <<>>)
        ELSE SfResult("None", [sf EXCEPT !._pos = s.f.pos], s.f, <<>>)

_SharedFileRO_read(sf, d, f, n) ==
    LET s == FileSeek(d, f, sf._pos, 0)
        r == FileRead(d, s.f, n)
    IN  IF sf._file = "None" THEN SfResult("AttributeError", sf, f, <<>>)
        ELSE IF s.exc # "None" THEN SfResult(s.exc, sf, s.f, <<>>)
        ELSE IF r.exc # "None" THEN SfResult(r.exc, sf, r.f, <<>>)
        ELSE SfResult("None", [sf EXCEPT !._pos = r.f.pos], r.f, r.data)

\* _SharedFileRO.close() without the test of self._file
_SharedFileRO_close_again(sf, z, f) ==
    LET cl == ZipFileRO__close(z, f)
    IN  [exc |-> cl.exc, sf |-> [sf EXCEPT !._file = "None"],
         zf |-> cl.zf, f |-> cl.f]

\* _SharedFileRO.close(): hands the file to ZipFileRO._close once
_SharedFileRO_close(sf, z, f) ==
    LET cl == ZipFileRO__close(z, f)
    IN  IF sf._file = "None" THEN [exc |-> "None", sf |-> sf, zf |-> z, f |-> f]
        ELSE [exc |-> cl.exc, sf |-> [sf EXCEPT !._file = "None"],
              zf |-> cl.zf, f |-> cl.f]

-----------------------------------------------------------------------------
(* ZipFilePartRO: the Entry Reader *)

PtResult(e, pt, f, data) == [exc |-> e, pt |-> pt, f |-> f, data |-> data]

\* __init__ that takes the bytes to deliver from the compressed size
ZipFilePartRO_init_compressed(sf, f, zinfo) ==
    LET pt == [closed |-> FALSE, _fileobj |-> sf, _close_fileobj |-> TRUE,
               _compress_left |-> zinfo.compress_size,
               _left |-> zinfo.compress_size, _eof |-> FALSE,
               _readbuffer |-> <<>>, _offset |-> 0, name |-> zinfo.filename,
               _orig_compress_start |-> sf._pos,
               _orig_compress_size |-> zinfo.compress_size,
               _orig_file_size |-> zinfo.file_size, _seekable |-> TRUE]
    IN  IF f.closed THEN PtResult("ValueError", pt, f, <<>>)
        ELSE IF f.seekable THEN PtResult("None", pt, f, <<>>)
        ELSE PtResult("NotImplementedError",
                      [pt EXCEPT !._seekable = FALSE], f, <<>>)

\* ZipFilePartRO.__init__(fileobj, zinfo, close_fileobj)
ZipFilePartRO_init(sf, f, zinfo) ==
    LET pt == [closed |-> FALSE, _fileobj |-> sf, _close_fileobj |-> TRUE,
               _compress_left |-> zinfo.compress_size,
               _left |-> zinfo.file_size, _eof |-> FALSE,
               _readbuffer |-> <<>>, _offset |-> 0, name |-> zinfo.filename,
               _orig_compress_start |-> sf._pos,
               _orig_compress_size |-> zinfo.compress_size,
               _orig_file_size |-> zinfo.file_size, _seekable |-> TRUE]
    IN  IF f.closed THEN PtResult("ValueError", pt, f, <<>>)
        ELSE IF f.seekable THEN PtResult("None", pt, f, <<>>)
        ELSE PtResult("NotImplementedError",
                      [pt EXCEPT !._seekable = FALSE], f, <<>>)

\* _read2 that marks the entry as spent when the source has no more bytes
_read2_data_spent(pt, r) ==
    LET pt1 == [pt EXCEPT !._fileobj = r.sf,
                          !._compress_left = @ - Len(r.data)]
    IN  IF r.exc # "None" THEN PtResult(r.exc, pt, r.f, <<>>)
        ELSE IF r.data = <<>>
        THEN PtResult("EOFError", [pt1 EXCEPT !._compress_left = 0], r.f,
                      <<>>)
        ELSE PtResult("None", pt1, r.f, r.data)

\* lines 1080-1086 of _read2; r is the outcome of self._fileobj.read(n)
_read2_data(pt, r) ==
    LET pt1 == [pt EXCEPT !._fileobj = r.sf,
                          !._compress_left = @ - Len(r.data)]
    IN  IF r.exc # "None" THEN PtResult(r.exc, pt, r.f, <<>>)
        ELSE IF r.data = <<>> THEN PtResult("EOFError", pt1, r.f, <<>>)
        ELSE PtResult("None", pt1, r.f, r.data)

\* _read2 that reads the descriptor where it stands, not through the cursor
\* of the shared file
_read2_raw(pt, d, f, n) ==
    LET r == FileRead(d, f, Min(Max(n, MIN_READ_SIZE), pt._compress_left))
    IN  IF pt._compress_left <= 0 THEN PtResult("None", pt, f, <<>>)
        ELSE _read2_data(pt, SfResult(r.exc,
                                      [pt._fileobj EXCEPT !._pos = r.f.pos],
                                      r.f, r.data))

\* _read2 that asks for MIN_READ_SIZE bytes or more whatever is left of the
\* entry
_read2_unbounded(pt, d, f, n) ==
    IF pt._compress_left <= 0 THEN PtResult("None", pt, f, <<>>)
    ELSE _read2_data(pt,
             _SharedFileRO_read(pt._fileobj, d, f, Max(n, MIN_READ_SIZE)))

_read2(pt, d, f, n) ==
    IF pt._compress_left <= 0 THEN PtResult("None", pt, f, <<>>)
    ELSE _read2_data(pt,
             _SharedFileRO_read(pt._fileobj, d, f,
                 Min(Max(n, MIN_READ_SIZE), pt._compress_left)))

\* _read1 without data = data[:self._left]
_read1_data_whole(r) ==
    IF r.exc # "None" THEN r
    ELSE PtResult("None",
             [r.pt EXCEPT !._eof = (r.pt._compress_left <= 0)
                                   \/ r.pt._left - Len(r.data) <= 0,
                          !._left = @ - Len(r.data)],
             r.f, r.data)

\* lines 1106-1124 of _read1; r is the outcome of self._read2(n)
_read1_data(r) ==
    LET data == Slice(r.data, 0, r.pt._left)
        left == r.pt._left - Len(data)
    IN  IF r.exc # "None" THEN r
        ELSE PtResult("None",
                 [r.pt EXCEPT !._eof = (r.pt._compress_left <= 0) \/ left <= 0,
                              !._left = left],
                 r.f, data)

_read1(pt, d, f, n) ==
    IF pt._eof \/ n <= 0 THEN PtResult("None", pt, f, <<>>)
    ELSE _read1_data(_read2(pt, d, f, n))

RECURSIVE ReadToEof(_, _, _, _)
\* buf += self._read1(self.MAX_N); r is the outcome of that _read1
ReadToEof_data(d, buf, r) ==
    IF r.exc # "None" THEN r
    ELSE ReadToEof(r.pt, d, r.f, buf \o r.data)

\* while not self._eof: buf += self._read1(self.MAX_N)
ReadToEof(pt, d, f, buf) ==
    IF pt._eof THEN PtResult("None", pt, f, buf)
    ELSE ReadToEof_data(d, buf, _read1(pt, d, f, MAX_N))

RECURSIVE ReadBounded(_, _, _, _, _)
\* the body of the loop of the bounded read that keeps the bytes read ahead
\* without noting how many of them it has returned
ReadBounded_data_unmarked(d, n, buf, r) ==
    IF r.exc # "None" THEN r
    ELSE IF n < Len(r.data)
    THEN PtResult("None",
                  [r.pt EXCEPT !._readbuffer = r.data, !._offset = 0],
                  r.f, buf \o Slice(r.data, 0, n))
    ELSE ReadBounded(r.pt, d, r.f, n - Len(r.data), buf \o r.data)

\* the body of the loop of the bounded read; r is the outcome of _read1(n)
ReadBounded_data(d, n, buf, r) ==
    IF r.exc # "None" THEN r
    ELSE IF n < Len(r.data)
    THEN PtResult("None",
                  [r.pt EXCEPT !._readbuffer = r.data, !._offset = n],
                  r.f, buf \o Slice(r.data, 0, n))
    ELSE ReadBounded(r.pt, d, r.f, n - Len(r.data), buf \o r.data)

\* while n > 0 and not self._eof: ... of the bounded read
ReadBounded(pt, d, f, n, buf) ==
    IF ~(n > 0 /\ ~pt._eof) THEN PtResult("None", pt, f, buf)
    ELSE ReadBounded_data(d, n, buf, _read1(pt, d, f, n))

\* read(n) that raises EOFError once the end of the stream was reached
ZipFilePartRO_read_strict(pt, d, f, n) ==
    IF pt.closed THEN PtResult("ValueError", pt, f, <<>>)
    ELSE IF pt._eof /\ pt._offset >= Len(pt._readbuffer)
    THEN PtResult("EOFError", pt, f, <<>>)
    ELSE IF n < 0
    THEN ReadToEof([pt EXCEPT !._readbuffer = <<>>, !._offset = 0], d, f,
                   SliceFrom(pt._readbuffer, pt._offset))
    ELSE IF n + pt._offset < Len(pt._readbuffer)
    THEN PtResult("None", [pt EXCEPT !._offset = n + pt._offset], f,
                  Slice(pt._readbuffer, pt._offset, n + pt._offset))
    ELSE ReadBounded([pt EXCEPT !._readbuffer = <<>>, !._offset = 0], d, f,
                     n + pt._offset - Len(pt._readbuffer),
                     SliceFrom(pt._readbuffer, pt._offset))

\* ZipFilePartRO.read(n); a negative n stands for None as well
ZipFilePartRO_read(pt, d, f, n) ==
    LET flushed == [pt EXCEPT !._readbuffer = <<>>, !._offset = 0]
        end == n + pt._offset
    IN  IF pt.closed THEN PtResult("ValueError", pt, f, <<>>)
        ELSE IF n < 0
        THEN ReadToEof(flushed, d, f, SliceFrom(pt._readbuffer, pt._offset))
        ELSE IF end < Len(pt._readbuffer)
        THEN PtResult("None", [pt EXCEPT !._offset = end], f,
                      Slice(pt._readbuffer, pt._offset, end))
        ELSE ReadBounded(flushed, d, f, end - Len(pt._readbuffer),
                         SliceFrom(pt._readbuffer, pt._offset))

\* peek() that leaves the reader where its read left it
ZipFilePartRO_peek_chunk_consumed(r) ==
    IF r.exc # "None" THEN r
    ELSE PtResult("None", r.pt, r.f, Slice(r.data, 0, 512))

\* lines 975-982 of peek; r is the outcome of chunk = self.read(n)
ZipFilePartRO_peek_chunk(r) ==
    IF r.exc # "None" THEN r
    ELSE IF Len(r.data) > r.pt._offset
    THEN PtResult("None",
             [r.pt EXCEPT !._readbuffer =
                              r.data \o SliceFrom(r.pt._readbuffer,
                                                  r.pt._offset),
                          !._offset = 0],
             r.f,
             Slice(r.data \o SliceFrom(r.pt._readbuffer, r.pt._offset),
                   0, 512))
    ELSE PtResult("None",
             [r.pt EXCEPT !._offset = @ - Len(r.data)], r.f,
             Slice(r.pt._readbuffer, r.pt._offset - Len(r.data),
                   r.pt._offset - Len(r.data) + 512))

\* ZipFilePartRO.peek(n): up to 512 buffered bytes, read first when fewer
\* than n are buffered
ZipFilePartRO_peek(pt, d, f, n) ==
    IF n > Len(pt._readbuffer) - pt._offset
    THEN ZipFilePartRO_peek_chunk(ZipFilePartRO_read(pt, d, f, n))
    ELSE PtResult("None", pt, f,
                  Slice(pt._readbuffer, pt._offset, pt._offset + 512))

\* ZipFilePartRO.tell() of a reader that is not closed
ZipFilePartRO_tell(pt) ==
    pt._orig_file_size - pt._left - Len(pt._readbuffer) + pt._offset

\* ZipFilePartRO.tell() without the test of self.closed
ZipFilePartRO_tell_call_any(pt) ==
    IF ~pt._seekable THEN Answer("UnsupportedOperation", <<>>)
    ELSE Answer("None", <<ZipFilePartRO_tell(pt)>>)

\* ZipFilePartRO.tell() as the client calls it
ZipFilePartRO_tell_call(pt) ==
    IF pt.closed THEN Answer("ValueError", <<>>)
    ELSE IF ~pt._seekable THEN Answer("UnsupportedOperation", <<>>)
    ELSE Answer("None", <<ZipFilePartRO_tell(pt)>>)

RECURSIVE SeekDiscard(_, _, _, _)
\* the body of the loop of seek(); r is the outcome of self.read(read_len)
SeekDiscard_data(d, read_offset, r) ==
    IF r.exc # "None" THEN r
    ELSE SeekDiscard(r.pt, d, r.f,
                     read_offset - Min(MAX_SEEK_READ, read_offset))

\* while read_offset > 0: self.read(min(self.MAX_SEEK_READ, read_offset))
SeekDiscard(pt, d, f, read_offset) ==
    IF ~(read_offset > 0) THEN PtResult("None", pt, f, <<>>)
    ELSE SeekDiscard_data(d, read_offset,
             ZipFilePartRO_read(pt, d, f, Min(MAX_SEEK_READ, read_offset)))

\* the fast seek of a stored entry (lines 1174-1180); s is the outcome of
\* self._fileobj.seek(read_offset, os.SEEK_CUR)
ZipFilePartRO_seek_fast(pt, read_offset, s) ==
    IF s.exc # "None" THEN PtResult(s.exc, pt, s.f, <<>>)
    ELSE PtResult("None",
             [pt EXCEPT !._fileobj = s.sf, !._left = @ - read_offset,
                        !._readbuffer = <<>>, !._offset = 0],
             s.f, <<>>)

\* the reset of the reader for a target before the current position (lines
\* 1184-1193); s is the outcome of self._fileobj.seek(orig_compress_start)
ZipFilePartRO_seek_reset(pt, d, new_pos, s) ==
    IF s.exc # "None" THEN PtResult(s.exc, pt, s.f, <<>>)
    ELSE SeekDiscard(
             [pt EXCEPT !._fileobj = s.sf,
                        !._compress_left = pt._orig_compress_size,
                        !._left = pt._orig_file_size,
                        !._readbuffer = <<>>, !._offset = 0, !._eof = FALSE],
             d, s.f, new_pos)

\* seek() that has no branch for a target among the buffered bytes
ZipFilePartRO_seek_unbuffered(pt, d, f, offset, whence) ==
    LET curr_pos == ZipFilePartRO_tell(pt)
        target == IF whence = 0 THEN offset
                  ELSE IF whence = 1 THEN curr_pos + offset
                  ELSE pt._orig_file_size + offset
        new_pos == Max(Min(target, pt._orig_file_size), 0)
        read_offset == new_pos - curr_pos
        buff_offset == read_offset + pt._offset
        skip == read_offset - (Len(pt._readbuffer) - pt._offset)
    IN  IF pt.closed THEN PtResult("ValueError", pt, f, <<>>)
        ELSE IF ~pt._seekable
        THEN PtResult("UnsupportedOperation", pt, f, <<>>)
        ELSE IF whence \notin {0, 1, 2} THEN PtResult("ValueError", pt, f, <<>>)
        ELSE IF "_compress_type" \notin DOMAIN pt
        THEN PtResult("AttributeError", pt, f, <<>>)
        ELSE IF pt._compress_type = ZIP_STORED /\ read_offset > 0
        THEN ZipFilePartRO_seek_fast(pt, skip,
                 _SharedFileRO_seek(pt._fileobj, d, f, skip, 1))
        ELSE IF read_offset < 0
        THEN ZipFilePartRO_seek_reset(pt, d, new_pos,
                 _SharedFileRO_seek(pt._fileobj, d, f,
                                    pt._orig_compress_start, 0))
        ELSE SeekDiscard(pt, d, f, read_offset)

\* ZipFilePartRO.seek(offset, whence); the reader has the attributes that
\* __init__ assigned (the fields of pt), and reading another one raises
\* AttributeError
ZipFilePartRO_seek(pt, d, f, offset, whence) ==
    LET curr_pos == ZipFilePartRO_tell(pt)
        target == IF whence = 0 THEN offset
                  ELSE IF whence = 1 THEN curr_pos + offset
                  ELSE pt._orig_file_size + offset
        new_pos == Max(Min(target, pt._orig_file_size), 0)
        read_offset == new_pos - curr_pos
        buff_offset == read_offset + pt._offset
        skip == read_offset - (Len(pt._readbuffer) - pt._offset)
    IN  IF pt.closed THEN PtResult("ValueError", pt, f, <<>>)
        ELSE IF ~pt._seekable
        THEN PtResult("UnsupportedOperation", pt, f, <<>>)
        ELSE IF whence \notin {0, 1, 2} THEN PtResult("ValueError", pt, f, <<>>)
        ELSE IF buff_offset >= 0 /\ buff_offset < Len(pt._readbuffer)
        THEN PtResult("None", [pt EXCEPT !._offset = buff_offset], f, <<>>)
        ELSE IF "_compress_type" \notin DOMAIN pt
        THEN PtResult("AttributeError", pt, f, <<>>)
        ELSE IF pt._compress_type = ZIP_STORED /\ read_offset > 0
        THEN ZipFilePartRO_seek_fast(pt, skip,
                 _SharedFileRO_seek(pt._fileobj, d, f, skip, 1))
        ELSE IF read_offset < 0
        THEN ZipFilePartRO_seek_reset(pt, d, new_pos,
                 _SharedFileRO_seek(pt._fileobj, d, f,
                                    pt._orig_compress_start, 0))
        ELSE SeekDiscard(pt, d, f, read_offset)

\* ZipFilePartRO.close() of a reader built with close_fileobj=False
ZipFilePartRO_close_only(pt, z, f) ==
    [exc |-> "None", pt |-> [pt EXCEPT !.closed = TRUE], zf |-> z, f |-> f]

\* ZipFilePartRO.close(): closes the shared file, then marks itself closed
ZipFilePartRO_close(pt, z, f) ==
    LET cl == _SharedFileRO_close(pt._fileobj, z, f)
    IN  [exc |-> cl.exc,
         pt |-> [pt EXCEPT !._fileobj = cl.sf, !.closed = TRUE],
         zf |-> cl.zf, f |-> cl.f]

-----------------------------------------------------------------------------
(* ZipFileRO.open *)

NoPart == [closed |-> TRUE]

OpenResult(e, z, f, pt) == [exc |-> e, zf |-> z, f |-> f, pt |-> pt]

\* an except clause that re-raises without zef_file.close()
OpenUnwind_bare(e, sf, z, f) == OpenResult(e, z, f, NoPart)

\* the except clause of open(): zef_file.close(), then re-raise
OpenUnwind(e, sf, z, f) ==
    LET cl == _SharedFileRO_close(sf, z, f)
    IN  OpenResult(IF cl.exc # "None" THEN cl.exc ELSE e, cl.zf, cl.f, NoPart)

\* line 1708: np is the outcome of ZipFilePartRO(zef_file, zinfo, True)
ZipFileRO_open_reader(z1, sf, np) ==
    IF np.exc # "None" THEN OpenUnwind(np.exc, sf, z1, np.f)
    ELSE OpenResult("None", z1, np.f, np.pt)

\* open() that does not compare the name of the header with the directory
ZipFileRO_open_checks_unnamed(z1, zinfo, fheader, fname, s3) ==
    LET fname_str == DecodeName(fname, UnpackH(fheader, 6))
    IN  IF s3.exc # "None" THEN OpenUnwind(s3.exc, s3.sf, z1, s3.f)
        ELSE IF HasBit(zinfo.flag_bits, _MASK_COMPRESSED_PATCH)
        THEN OpenUnwind("NotImplementedError", s3.sf, z1, s3.f)
        ELSE IF HasBit(zinfo.flag_bits, _MASK_STRONG_ENCRYPTION)
        THEN OpenUnwind("NotImplementedError", s3.sf, z1, s3.f)
        ELSE IF fname_str.exc # "None"
        THEN OpenUnwind(fname_str.exc, s3.sf, z1, s3.f)
        ELSE IF HasBit(zinfo.flag_bits, _MASK_ENCRYPTED)
        THEN OpenUnwind("NotImplementedError", s3.sf, z1, s3.f)
        ELSE ZipFileRO_open_reader(z1, s3.sf,
                 ZipFilePartRO_init(s3.sf, s3.f, zinfo))

\* lines 1672-1708: s3 is the outcome of skipping the extra field
ZipFileRO_open_checks(z1, zinfo, fheader, fname, s3) ==
    LET fname_str == DecodeName(fname, UnpackH(fheader, 6))
    IN  IF s3.exc # "None" THEN OpenUnwind(s3.exc, s3.sf, z1, s3.f)
        ELSE IF HasBit(zinfo.flag_bits, _MASK_COMPRESSED_PATCH)
        THEN OpenUnwind("NotImplementedError", s3.sf, z1, s3.f)
        ELSE IF HasBit(zinfo.flag_bits, _MASK_STRONG_ENCRYPTION)
        THEN OpenUnwind("NotImplementedError", s3.sf, z1, s3.f)
        ELSE IF fname_str.exc # "None"
        THEN OpenUnwind(fname_str.exc, s3.sf, z1, s3.f)
        ELSE IF fname_str.str # zinfo.filename
        THEN OpenUnwind("BadZipFile", s3.sf, z1, s3.f)
        ELSE IF HasBit(zinfo.flag_bits, _MASK_ENCRYPTED)
        THEN OpenUnwind("NotImplementedError", s3.sf, z1, s3.f)
        ELSE ZipFileRO_open_reader(z1, s3.sf,
                 ZipFilePartRO_init(s3.sf, s3.f, zinfo))

\* open() that does not step over the extra field of the local header
ZipFileRO_open_name_noextra(z1, d, zinfo, fheader, r2) ==
    IF r2.exc # "None" THEN OpenUnwind(r2.exc, r2.sf, z1, r2.f)
    ELSE ZipFileRO_open_checks(z1, zinfo, fheader, r2.data, r2)

\* lines 1670-1672: r2 is the outcome of reading the name of the header
ZipFileRO_open_name(z1, d, zinfo, fheader, r2) ==
    IF r2.exc # "None" THEN OpenUnwind(r2.exc, r2.sf, z1, r2.f)
    ELSE ZipFileRO_open_checks(z1, zinfo, fheader, r2.data,
             IF UnpackH(fheader, 28) # 0
             THEN _SharedFileRO_seek(r2.sf, d, r2.f, UnpackH(fheader, 28), 1)
             ELSE r2)

\* lines 1662-1670: r1 is the outcome of zef_file.read(_FILE_HEADER_SIZE)
ZipFileRO_open_header(z1, d, zinfo, r1) ==
    IF r1.exc # "None" THEN OpenUnwind(r1.exc, r1.sf, z1, r1.f)
    ELSE IF Len(r1.data) # _FILE_HEADER_SIZE
    THEN OpenUnwind("BadZipFile", r1.sf, z1, r1.f)
    ELSE IF SubSeq(r1.data, 1, 4) # _FILE_HEADER_STRING
    THEN OpenUnwind("BadZipFile", r1.sf, z1, r1.f)
    ELSE ZipFileRO_open_name(z1, d, zinfo, r1.data,
             _SharedFileRO_read(r1.sf, d, r1.f, UnpackH(r1.data, 26)))

\* open() that takes its reference before it looks the name up
ZipFileRO_open_counted(z, d, f, name) ==
    IF z._file = "None" THEN OpenResult("ValueError", z, f, NoPart)
    ELSE IF ~HasName(z._name_to_info, name)
    THEN OpenResult("KeyError", [z EXCEPT !._file_ref_count = @ + 1], f,
                    NoPart)
    ELSE ZipFileRO_open_header([z EXCEPT !._file_ref_count = @ + 1], d,
             DictGet(z._name_to_info, name),
             _SharedFileRO_read(
                 _SharedFileRO(DictGet(z._name_to_info, name).header_offset),
                 d, f, _FILE_HEADER_SIZE))

\* ZipFileRO.open(name)
ZipFileRO_open(z, d, f, name) ==
    LET zinfo == DictGet(z._name_to_info, name)
    IN  IF z._file = "None" THEN OpenResult("ValueError", z, f, NoPart)
        ELSE IF ~HasName(z._name_to_info, name)
        THEN OpenResult("KeyError", z, f, NoPart)
        ELSE ZipFileRO_open_header([z EXCEPT !._file_ref_count = @ + 1], d,
                 zinfo,
                 _SharedFileRO_read(_SharedFileRO(zinfo.header_offset), d, f,
                                    _FILE_HEADER_SIZE))

-----------------------------------------------------------------------------
(* The state machine: a client constructs the archive handle over a byte   *)
(* source, opens entries, reads from and closes the readers, and closes    *)
(* the handle, one call at a time.                                         *)

Descriptors ==
    {[pos |-> 0, closed |-> FALSE, closes |-> 0, kind |-> "file",
      seekable |-> TRUE, external |-> FALSE],
     [pos |-> 0, closed |-> FALSE, closes |-> 0, kind |-> "bytesio",
      seekable |-> TRUE, external |-> TRUE],
     [pos |-> 0, closed |-> FALSE, closes |-> 0, kind |-> "bytesio",
      seekable |-> FALSE, external |-> TRUE]}

ReadArgs == (-1)..MaxReadArg

\* the seek(offset, whence) calls tried: absolute targets from before the
\* start to MaxSeekArg (whence 0 is os.SEEK_SET), and a step back or none
\* from the current position (1, os.SEEK_CUR) and from the end (2,
\* os.SEEK_END)
SeekArgs ==
    {<<offset, 0>> : offset \in (-1)..MaxSeekArg}
    \cup {<<offset, whence>> : offset \in {-1, 0}, whence \in {1, 2}}

Call(op, exc, who, arg, ret) ==
    [op |-> op, exc |-> exc, who |-> who, arg |-> arg, ret |-> ret]

\* what held just before the client's last call; tclosed tells whether
\* the object the call was made on had been closed already, zclosed whether
\* the client had called close() on the archive handle before
Before(tclosed) ==
    [ref |-> zf._file_ref_count, closes |-> fd.closes,
     fclosed |-> fd.closed, pos |-> fd.pos, tclosed |-> tclosed,
     zclosed |-> hist.zclosed \/ last.op = "zclose", at |-> 0]

\* the same before a seek() of a reader, with the logical position (tell())
\* the reader was at
BeforeSeek(pt) == [Before(pt.closed) EXCEPT !.at = ZipFilePartRO_tell(pt)]

\* ghost: the bytes the reads of a reader have delivered since open(), kept
\* until the client first moves the reader with a successful seek(), and
\* whether a call of the reader has raised EOFError
Fresh == [bytes |-> <<>>, sought |-> FALSE, short |-> FALSE]
Sought == [bytes |-> <<>>, sought |-> TRUE, short |-> FALSE]
Delivered(o, data) == IF o.sought THEN o ELSE [o EXCEPT !.bytes = @ \o data]
Noted(o, exc) == IF exc = "EOFError" THEN [o EXCEPT !.short = TRUE] ELSE o

\* the names a client passes to open(): those of namelist() and a missing one
ClientNames ==
    {zf._name_to_info[i].filename : i \in DOMAIN zf._name_to_info}
    \cup {MissingName}

\* the names a client passes to getinfo(): the first of namelist() and a
\* missing one
QueryNames ==
    {zf._name_to_info[i].filename : i \in DOMAIN zf._name_to_info \cap {1}}
    \cup {MissingName}

Init ==
    /\ disk \in Sources
    /\ fd \in Descriptors
    /\ pc = "new"
    /\ zf = [_start_dir |-> -1, _name_to_info |-> <<>>,
             _file_passed |-> fd.external, _file |-> "None",
             _file_ref_count |-> 0]
    /\ parts = <<>>
    /\ last = Call("none", "None", 0, <<>>, <<>>)
    /\ hist = [ref |-> 0, closes |-> 0, fclosed |-> FALSE, pos |-> 0,
               tclosed |-> FALSE, zclosed |-> FALSE, at |-> 0]
    /\ out = <<>>
    /\ shared = <<>>

\* zf = ZipFileRO(path) or ZipFileRO(fileobj)
Construct ==
    /\ pc = "new"
    /\ \E r \in {ZipFileRO_init(disk, fd, fd.external)} :
           /\ pc' = IF r.exc = "None" THEN "live" ELSE "failed"
           /\ zf' = r.zf
           /\ fd' = r.f
           /\ last' = Call("init", r.exc, 0, <<>>, <<>>)
    /\ hist' = Before(FALSE)
    /\ UNCHANGED <<disk, parts, out, shared>>

\* zf.open(name)
Open(name) ==
    /\ pc = "live"
    /\ \E r \in {ZipFileRO_open(zf, disk, fd, name)} :
           /\ r.exc = "None" => Len(parts) < MaxParts
           /\ zf' = r.zf
           /\ fd' = r.f
           /\ parts' = IF r.exc = "None" THEN Append(parts, r.pt) ELSE parts
           /\ out' = IF r.exc = "None" THEN Append(out, Fresh) ELSE out
           /\ last' = Call("open", r.exc,
                           IF r.exc = "None" THEN Len(parts) + 1 ELSE 0,
                           name, <<>>)
    /\ hist' = Before(zf._file = "None")
    /\ UNCHANGED <<disk, pc, shared>>

\* zf.close(), also the call made by zf.__del__
CloseArchive ==
    /\ pc \in {"live", "failed"}
    /\ \E r \in {ZipFileRO_close(zf, fd)} :
           /\ zf' = r.zf
           /\ fd' = r.f
           /\ last' = Call("zclose", r.exc, 0, <<>>, <<>>)
    /\ hist' = Before(zf._file = "None")
    /\ UNCHANGED <<disk, pc, parts, out, shared>>

\* parts[i].read(n)
ReadPart(i, n) ==
    /\ i \in DOMAIN parts
    /\ \E r \in {ZipFilePartRO_read(parts[i], disk, fd, n)} :
           /\ parts' = [parts EXCEPT ![i] = r.pt]
           /\ fd' = r.f
           /\ last' = Call("read", r.exc, i, <<n>>, r.data)
           /\ out' = [out EXCEPT ![i] = Noted(Delivered(@, r.data), r.exc)]
    /\ hist' = Before(parts[i].closed)
    /\ UNCHANGED <<disk, pc, zf, shared>>

\* parts[i].peek(n)
PeekPart(i, n) ==
    /\ i \in DOMAIN parts
    /\ \E r \in {ZipFilePartRO_peek(parts[i], disk, fd, n)} :
           /\ parts' = [parts EXCEPT ![i] = r.pt]
           /\ fd' = r.f
           /\ last' = Call("peek", r.exc, i, <<n>>, r.data)
           /\ out' = [out EXCEPT ![i] = Noted(@, r.exc)]
    /\ hist' = BeforeSeek(parts[i])
    /\ UNCHANGED <<disk, pc, zf, shared>>

\* parts[i].close(), also the call made when the reader is collected
ClosePart(i) ==
    /\ i \in DOMAIN parts
    /\ \E r \in {ZipFilePartRO_close(parts[i], zf, fd)} :
           /\ parts' = [parts EXCEPT ![i] = r.pt]
           /\ zf' = r.zf
           /\ fd' = r.f
           /\ last' = Call("pclose", r.exc, i, <<>>, <<>>)
    /\ hist' = Before(parts[i].closed)
    /\ UNCHANGED <<disk, pc, out, shared>>

\* parts[i].seek(offset, whence)
SeekPart(i, offset, whence) ==
    /\ i \in DOMAIN parts
    /\ \E r \in {ZipFilePartRO_seek(parts[i], disk, fd, offset, whence)} :
           /\ parts' = [parts EXCEPT ![i] = r.pt]
           /\ fd' = r.f
           /\ last' = Call("seek", r.exc, i, <<offset, whence>>,
                           IF r.exc = "None"
                           THEN <<ZipFilePartRO_tell(r.pt)>> ELSE <<>>)
           /\ out' = IF r.exc = "None" THEN [out EXCEPT ![i] = Sought]
                     ELSE out
    /\ hist' = BeforeSeek(parts[i])
    /\ UNCHANGED <<disk, pc, zf, shared>>

\* parts[i].tell()
TellPart(i) ==
    /\ i \in DOMAIN parts
    /\ \E r \in {ZipFilePartRO_tell_call(parts[i])} :
           last' = Call("tell", r.exc, i, <<>>, r.ret)
    /\ hist' = Before(parts[i].closed)
    /\ UNCHANGED <<disk, fd, pc, zf, parts, out, shared>>

\* zf.namelist()
Namelist ==
    /\ pc = "live"
    /\ \E r \in {ZipFileRO_namelist(zf)} :
           last' = Call("namelist", r.exc, 0, <<>>, r.ret)
    /\ hist' = Before(zf._file = "None")
    /\ UNCHANGED <<disk, fd, pc, zf, parts, out, shared>>

\* zf.infolist()
Infolist ==
    /\ pc = "live"
    /\ \E r \in {ZipFileRO_infolist(zf)} :
           last' = Call("infolist", r.exc, 0, <<>>, r.ret)
    /\ hist' = Before(zf._file = "None")
    /\ UNCHANGED <<disk, fd, pc, zf, parts, out, shared>>

\* zf.getinfo(name)
Getinfo(name) ==
    /\ pc = "live"
    /\ \E r \in {ZipFileRO_getinfo(zf, name)} :
           last' = Call("getinfo", r.exc, 0, name, r.ret)
    /\ hist' = Before(zf._file = "None")
    /\ UNCHANGED <<disk, fd, pc, zf, parts, out, shared>>

Next ==
    \/ Construct
    \/ \E name \in ClientNames : Open(name)
    \/ CloseArchive
    \/ \E i \in 1..MaxParts, n \in ReadArgs : ReadPart(i, n)
    \/ \E i \in 1..MaxParts : ClosePart(i)
    \/ \E i \in 1..MaxParts, a \in SeekArgs : SeekPart(i, a[1], a[2])
    \/ \E i \in 1..MaxParts : TellPart(i)
    \/ Namelist
    \/ Infolist
    \/ \E name \in QueryNames : Getinfo(name)

Spec == Init /\ [][Next]_vars

-----------------------------------------------------------------------------
(* _SharedFileRO used on its own: MaxParts objects made over one           *)
(* descriptor, as open() makes one for each reader, and called in any      *)
(* order.                                                                  *)

\* the pos argument of _SharedFileRO(file, pos, close)
SharedStarts == 0..MaxSeekArg

\* the seek(offset, whence) calls tried on a _SharedFileRO
SharedSeekArgs ==
    {<<offset, whence>> : offset \in (-1)..MaxSeekArg, whence \in {0, 1, 2}}

SharedInit ==
    /\ disk = ShortGarbage
    /\ fd \in {f \in Descriptors : f.seekable}
    /\ pc = "shared"
    /\ zf = [_start_dir |-> -1, _name_to_info |-> <<>>,
             _file_passed |-> fd.external, _file |-> "fp",
             _file_ref_count |-> 1]
    /\ parts = <<>>
    /\ last = Call("none", "None", 0, <<>>, <<>>)
    /\ hist = [ref |-> 1, closes |-> 0, fclosed |-> FALSE, pos |-> 0,
               tclosed |-> FALSE, zclosed |-> FALSE, at |-> 0]
    /\ out = <<>>
    /\ shared \in [1..MaxParts -> {_SharedFileRO(pos) : pos \in SharedStarts}]

\* what held before a call on a _SharedFileRO, with the cursor (tell()) the
\* object was at
BeforeShared(sf) == [Before(sf._file = "None") EXCEPT !.at = sf._pos]

\* shared[i].read(n)
SharedRead(i, n) ==
    /\ i \in DOMAIN shared
    /\ \E r \in {_SharedFileRO_read(shared[i], disk, fd, n)} :
           /\ shared' = [shared EXCEPT ![i] = r.sf]
           /\ fd' = r.f
           /\ last' = Call("read", r.exc, i, <<n>>, r.data)
    /\ hist' = BeforeShared(shared[i])
    /\ UNCHANGED <<disk, pc, zf, parts, out>>

\* shared[i].seek(offset, whence); targets are kept within MaxSeekArg bytes
\* after the end of the source
SharedSeek(i, offset, whence) ==
    /\ i \in DOMAIN shared
    /\ \E r \in {_SharedFileRO_seek(shared[i], disk, fd, offset, whence)} :
           /\ r.f.pos <= Len(disk) + MaxSeekArg
           /\ shared' = [shared EXCEPT ![i] = r.sf]
           /\ fd' = r.f
           /\ last' = Call("seek", r.exc, i, <<offset, whence>>,
                           IF r.exc = "None" THEN <<r.sf._pos>> ELSE <<>>)
    /\ hist' = BeforeShared(shared[i])
    /\ UNCHANGED <<disk, pc, zf, parts, out>>

SharedNext ==
    \/ \E i \in 1..MaxParts, n \in ReadArgs : SharedRead(i, n)
    \/ \E i \in 1..MaxParts, a \in SharedSeekArgs : SharedSeek(i, a[1], a[2])

SharedSpec == SharedInit /\ [][SharedNext]_vars

-----------------------------------------------------------------------------
(* Locating and parsing the directory: the handle is constructed over each *)
(* of DirectorySources and its entry table queried; no reader is opened.   *)

DirectoryInit ==
    /\ disk \in DirectorySources
    /\ fd \in Descriptors
    /\ pc = "new"
    /\ zf = [_start_dir |-> -1, _name_to_info |-> <<>>,
             _file_passed |-> fd.external, _file |-> "None",
             _file_ref_count |-> 0]
    /\ parts = <<>>
    /\ last = Call("none", "None", 0, <<>>, <<>>)
    /\ hist = [ref |-> 0, closes |-> 0, fclosed |-> FALSE, pos |-> 0,
               tclosed |-> FALSE, zclosed |-> FALSE, at |-> 0]
    /\ out = <<>>
    /\ shared = <<>>

\* _extract_end_archive(fp) on the source, before a handle is constructed
Locate ==
    /\ pc = "new"
    /\ \E r \in {_extract_end_archive(disk, fd)} :
           /\ fd' = r.f
           /\ last' = Call("locate", r.exc, 0, <<>>, <<r.endrec>>)
    /\ hist' = Before(FALSE)
    /\ UNCHANGED <<disk, pc, zf, parts, out, shared>>

DirectoryNext ==
    \/ Locate
    \/ Construct
    \/ CloseArchive
    \/ Namelist
    \/ Infolist
    \/ \E name \in QueryNames : Getinfo(name)

DirectorySpec == DirectoryInit /\ [][DirectoryNext]_vars

-----------------------------------------------------------------------------
(* The readers alone: a client constructs an archive handle over a source  *)
(* with well-formed entries, entries of differing declared sizes or an     *)
(* entry that ends before its declared size, opens readers and reads,      *)
(* peeks and seeks them.                                                   *)

PeekArgs == 1..MaxPeekArg

ReaderInit ==
    /\ disk \in ReaderSources
    /\ fd \in Descriptors
    /\ pc = "new"
    /\ zf = [_start_dir |-> -1, _name_to_info |-> <<>>,
             _file_passed |-> fd.external, _file |-> "None",
             _file_ref_count |-> 0]
    /\ parts = <<>>
    /\ last = Call("none", "None", 0, <<>>, <<>>)
    /\ hist = [ref |-> 0, closes |-> 0, fclosed |-> FALSE, pos |-> 0,
               tclosed |-> FALSE, zclosed |-> FALSE, at |-> 0]
    /\ out = <<>>
    /\ shared = <<>>

ReaderNext ==
    \/ Construct
    \/ \E name \in ClientNames : Open(name)
    \/ \E i \in 1..MaxParts, n \in ReadArgs : ReadPart(i, n)
    \/ \E i \in 1..MaxParts, n \in PeekArgs : PeekPart(i, n)
    \/ \E i \in 1..MaxParts, a \in SeekArgs : SeekPart(i, a[1], a[2])

ReaderSpec == ReaderInit /\ [][ReaderNext]_vars

-----------------------------------------------------------------------------
(* The checks of open(): a client constructs an archive handle over an     *)
(* archive with one member per defect of a local header, opens entries     *)
(* and reads them.                                                         *)

HeaderInit ==
    /\ disk = HeaderArchive
    /\ fd \in Descriptors
    /\ pc = "new"
    /\ zf = [_start_dir |-> -1, _name_to_info |-> <<>>,
             _file_passed |-> fd.external, _file |-> "None",
             _file_ref_count |-> 0]
    /\ parts = <<>>
    /\ last = Call("none", "None", 0, <<>>, <<>>)
    /\ hist = [ref |-> 0, closes |-> 0, fclosed |-> FALSE, pos |-> 0,
               tclosed |-> FALSE, zclosed |-> FALSE, at |-> 0]
    /\ out = <<>>
    /\ shared = <<>>

HeaderNext ==
    \/ Construct
    \/ \E name \in ClientNames : Open(name)
    \/ \E i \in 1..MaxParts, n \in ReadArgs : ReadPart(i, n)

HeaderSpec == HeaderInit /\ [][HeaderNext]_vars

-----------------------------------------------------------------------------
(* Properties of the reference count and of the descriptor *)

OpenParts == {i \in DOMAIN parts : ~parts[i].closed}

\* the directory entry the last call named, when the table holds the name
Named == DictGet(zf._name_to_info, last.arg)

\* bit k of the flag bits of a directory entry
FlagBit(zinfo, k) == (zinfo.flag_bits \div (2 ^ k)) % 2 = 1

\* the last call was open() on an archive handle that was not closed
OpenedLive == last.op = "open" /\ ~hist.tclosed

\* the last call left the reference count and the descriptor as they were
Untouched ==
    /\ zf._file_ref_count = hist.ref
    /\ fd.closes = hist.closes
    /\ fd.closed = hist.fclosed

\* C1: whatever opens (successful or failing) and closes (first or
\* repeated) the client makes, _file_ref_count is never negative and the
\* assertion _file_ref_count > 0 of ZipFileRO._close never fails: no close
\* and no open ends with AssertionError, a failed construction has dropped
\* its one reference, and whoever can still call _close finds a count > 0.
C1_RefCountNeverNegative ==
    /\ zf._file_ref_count >= 0
    /\ last.op \in {"open", "zclose", "pclose"} => last.exc # "AssertionError"
    /\ (last.op = "init" /\ last.exc # "None") => zf._file_ref_count = 0
    /\ (zf._file # "None" \/ \E i \in DOMAIN parts :
                                 parts[i]._fileobj._file # "None")
          => zf._file_ref_count > 0

\* a reader is closed a second time when the count is already zero
C1_Witness ==
    /\ last.op = "pclose" /\ hist.tclosed
    /\ hist.ref = 0 /\ zf._file = "None"

\* C2: for a successfully constructed archive handle the reference count is
\* 1 while the handle is not closed (0 after) plus the number of readers
\* that open() returned and that are not closed yet.
C2_RefCountIsHolders ==
    pc = "live" =>
        zf._file_ref_count =
            (IF zf._file # "None" THEN 1 ELSE 0) + Cardinality(OpenParts)

\* two readers were issued, one is closed, the handle is closed: count 1
C2_Witness ==
    /\ pc = "live" /\ Len(parts) = 2 /\ Cardinality(OpenParts) = 1
    /\ zf._file = "None" /\ zf._file_ref_count = 1

\* C3: close() raises nothing in any state, and a further close() of the
\* same reader or of the same archive handle changes neither the reference
\* count nor the descriptor (no other physical close).
C3_CloseIdempotent ==
    last.op \in {"pclose", "zclose"} =>
        /\ last.exc = "None"
        /\ hist.tclosed => Untouched /\ fd.pos = hist.pos

\* the archive handle is closed again while a reader still holds the file
C3_Witness ==
    /\ last.op = "zclose" /\ hist.tclosed
    /\ pc = "live" /\ OpenParts # {} /\ ~fd.external

\* the bytes of the entry of reader i: the compress_size bytes of the source
\* that follow its local header, name and extra field
Content(i) ==
    Slice(disk, parts[i]._orig_compress_start,
          parts[i]._orig_compress_start + parts[i]._orig_compress_size)

\* the bytes of the entry that reader i is to deliver: its content up to the
\* declared uncompressed size
Payload(i) == Slice(Content(i), 0, parts[i]._orig_file_size)

\* C4: the descriptor is not physically closed while an issued reader is
\* open, whichever other readers and the archive handle were closed, and
\* such a reader still reads: its read raises nothing and a read to the end
\* returns the rest of its entry's bytes.
C4_OpenReaderKeepsDescriptor ==
    /\ OpenParts # {} => ~fd.closed
    /\ (last.op = "read" /\ ~hist.tclosed) =>
          /\ last.exc = "None"
          /\ last.arg = <<-1>> =>
                /\ Len(last.ret) <= Len(Payload(last.who))
                /\ last.ret = SliceFrom(Payload(last.who),
                                  Len(Payload(last.who)) - Len(last.ret))
                /\ ZipFilePartRO_tell(parts[last.who])
                      = parts[last.who]._orig_file_size

\* of two readers one is closed and so is the handle, the descriptor is the
\* engine's own, and the other reader has just read its whole entry
C4_Witness ==
    /\ Len(parts) = 2 /\ parts[1].closed /\ zf._file = "None"
    /\ ~fd.external /\ pc = "live"
    /\ last.op = "read" /\ last.who = 2 /\ last.arg = <<-1>>
    /\ last.ret = Content(2) /\ last.ret # <<>>

\* C5: a descriptor the archive handle opened itself (from a path) is
\* closed at most once, and it has been closed exactly once whenever the
\* handle and every issued reader are closed, in whatever order.
C5_OwnedClosedOnce ==
    ~fd.external =>
        /\ fd.closes <= 1
        /\ fd.closed <=> fd.closes = 1
        /\ (pc # "new" /\ zf._file = "None" /\ OpenParts = {})
              => fd.closes = 1

\* the handle was closed before its two readers; the last reader's close
\* is the one that released the descriptor
C5_Witness ==
    /\ ~fd.external /\ pc = "live" /\ Len(parts) = 2 /\ OpenParts = {}
    /\ last.op = "pclose" /\ ~hist.tclosed
    /\ hist.ref = 1 /\ hist.closes = 0 /\ fd.closes = 1

\* C6: a byte source passed in as a file object is never closed by the
\* engine, whatever is opened and closed and also when construction fails.
C6_ExternalNeverClosed ==
    fd.external => fd.closes = 0 /\ ~fd.closed

\* everything issued over an external source is closed, the count is zero
C6_Witness ==
    /\ fd.external /\ pc = "live" /\ Len(parts) = 2 /\ OpenParts = {}
    /\ zf._file = "None" /\ zf._file_ref_count = 0

\* the local header the directory entry points at is complete and carries
\* the local-header signature
HeaderIntact(zinfo) ==
    LET h == Slice(disk, Min(zinfo.header_offset, Len(disk)),
                   zinfo.header_offset + _FILE_HEADER_SIZE)
    IN  Len(h) = _FILE_HEADER_SIZE /\ SubSeq(h, 1, 4) = _FILE_HEADER_STRING

\* the name stored in that local header decodes to the directory's name
HeaderNamed(zinfo) ==
    LET o == zinfo.header_offset
        h == Slice(disk, o, o + _FILE_HEADER_SIZE)
        n == Slice(disk, o + _FILE_HEADER_SIZE,
                   o + _FILE_HEADER_SIZE + UnpackH(h, 26))
        str == IF (UnpackH(h, 6) \div 2048) % 2 = 1
               THEN DecodeUtf8(n) ELSE DecodeCp437(n)
    IN  str.exc = "None" /\ str.str = zinfo.filename

Flagged(zinfo) ==
    FlagBit(zinfo, 0) \/ FlagBit(zinfo, 5) \/ FlagBit(zinfo, 6)

\* C7 as stated: open() of an entry whose flag bits signal encrypted (bit
\* 0), compressed patch data (bit 5) or strong encryption (bit 6) fails
\* with NotImplementedError, returns no reader and leaves the reference
\* count as it was.
C7_Original ==
    (OpenedLive /\ HasName(zf._name_to_info, last.arg) /\ Flagged(Named)) =>
        /\ last.exc = "NotImplementedError"
        /\ last.who = 0
        /\ zf._file_ref_count = hist.ref

\* the checks of the local header that open() makes before it comes to the
\* flag of the entry pass: the header is complete with the right signature
\* and, when bit 0 is the only one of the three, names the directory's name
HeaderPasses(zinfo) ==
    /\ HeaderIntact(zinfo)
    /\ (FlagBit(zinfo, 5) \/ FlagBit(zinfo, 6) \/ HeaderNamed(zinfo))

\* C7: open() of an entry whose flag bits signal encrypted (bit 0),
\* compressed patch data (bit 5) or strong encryption (bit 6) always fails,
\* returns no reader and leaves the reference count as it was; the error is
\* NotImplementedError when the entry's local header is complete with the
\* right signature and, for an entry with bit 0 but neither bit 5 nor 6,
\* the header's name equals the directory's; otherwise it is the error of
\* that earlier check of the header.
C7_FlaggedEntryRejected ==
    (OpenedLive /\ HasName(zf._name_to_info, last.arg) /\ Flagged(Named)) =>
        /\ last.exc # "None"
        /\ last.who = 0
        /\ zf._file_ref_count = hist.ref
        /\ HeaderPasses(Named) => last.exc = "NotImplementedError"
        /\ ~HeaderPasses(Named)
              => last.exc \in {"BadZipFile", "UnicodeDecodeError"}

\* the entry with the patch flag is refused while a reader holds the file
C7_Witness ==
    /\ OpenedLive /\ last.arg = <<112>> /\ HasName(zf._name_to_info, <<112>>)
    /\ FlagBit(Named, 5) /\ last.exc = "NotImplementedError"
    /\ hist.ref = 2 /\ OpenParts # {}

\* the compression method field of the local header of a directory entry
LocalMethod(zinfo) ==
    UnpackH(Slice(disk, zinfo.header_offset,
                  zinfo.header_offset + _FILE_HEADER_SIZE), 8)

\* the source is one whose central directory declares a non-stored entry
DirectoryDeclaresDeflate == disk = DeflatedArchive

\* C8 as stated: an entry with a compression method other than stored makes
\* open() fail with NotImplementedError and the reference count is not left
\* incremented, whether the method is declared in the entry's local header
\* or in the central directory, where the only other outcome the statement
\* leaves is the same error at parse time; read() never delivers the bytes
\* of such an entry.
C8_NonStoredRejected ==
    /\ (/\ OpenedLive /\ HasName(zf._name_to_info, last.arg)
        /\ HeaderIntact(Named) /\ LocalMethod(Named) # ZIP_STORED)
          => /\ last.exc = "NotImplementedError"
             /\ last.who = 0
             /\ zf._file_ref_count = hist.ref
    /\ (last.op = "init" /\ DirectoryDeclaresDeflate)
          => last.exc = "NotImplementedError"
    /\ (/\ last.op = "read" /\ last.exc = "None"
        /\ HasName(zf._name_to_info, parts[last.who].name)
        /\ LocalMethod(DictGet(zf._name_to_info, parts[last.who].name))
              # ZIP_STORED)
          => last.ret = <<>>

\* C9: when open() fails after it incremented the reference count
\* (truncated local header, bad signature, name mismatch, unsupported flag,
\* source that reports itself not seekable) the shared file is released
\* before the error reaches the caller: the reference count and the
\* descriptor's open/closed status are what they were before the call, and
\* no reader is returned.
C9_FailedOpenUnwinds ==
    (OpenedLive /\ last.exc # "None") =>
        /\ Untouched
        /\ last.who = 0
        /\ zf._file # "None"

\* the entry whose directory offset lies past the end of the source is
\* opened while a reader holds the file: truncated header, count restored
C9_Witness ==
    /\ OpenedLive /\ last.arg = <<116>> /\ last.exc = "BadZipFile"
    /\ hist.ref = 2 /\ zf._file_ref_count = 2 /\ OpenParts # {}

\* C10: open() on an archive handle after its close() fails with ValueError
\* for every name, in the table or not, touches neither the reference count
\* nor the descriptor, and returns no reader, also while readers issued
\* before the close are open.
C10_OpenAfterClose ==
    (last.op = "open" /\ hist.zclosed) =>
        /\ last.exc = "ValueError"
        /\ last.who = 0
        /\ Untouched
        /\ fd.pos = hist.pos

\* a name of the table is opened on the closed handle while a reader that
\* was issued before the close is still open
C10_Witness ==
    /\ last.op = "open" /\ hist.zclosed /\ last.exc = "ValueError"
    /\ HasName(zf._name_to_info, last.arg)
    /\ OpenParts # {} /\ zf._file_ref_count = 1

-----------------------------------------------------------------------------
(* Properties of the entry table *)

\* the last call was a query of the entry table
Queried == last.op \in {"namelist", "infolist", "getinfo"}

\* C11: namelist(), infolist() and getinfo(name) called on the archive
\* handle after its close() fail with the already-closed error (ValueError,
\* the error of open() on a closed handle) and return no entries.
C11_QueryAfterClose ==
    (Queried /\ hist.zclosed) => last.exc = "ValueError" /\ last.ret = <<>>

\* C12: getinfo(name) with a name the entry table does not hold fails with
\* KeyError, and so does open(name) on an archive handle that is not closed:
\* that open() returns no reader and leaves the reference count, the close
\* calls, the open/closed status and the position of the descriptor as they
\* were.
C12_MissingEntry ==
    /\ (last.op = "getinfo" /\ ~HasName(zf._name_to_info, last.arg))
          => last.exc = "KeyError" /\ last.ret = <<>>
    /\ (OpenedLive /\ ~hist.zclosed /\ ~HasName(zf._name_to_info, last.arg))
          => /\ last.exc = "KeyError"
             /\ last.who = 0
             /\ Untouched
             /\ fd.pos = hist.pos

\* a name the table does not hold is opened while a reader holds the file
C12_Witness ==
    /\ OpenedLive /\ last.arg = MissingName /\ last.exc = "KeyError"
    /\ ~HasName(zf._name_to_info, MissingName)
    /\ OpenParts # {} /\ hist.ref = 2 /\ zf._file_ref_count = 2

-----------------------------------------------------------------------------
(* Properties of the cursor of a _SharedFileRO *)

\* C14: a read(n) of a _SharedFileRO returns the bytes of the source at the
\* cursor of that object, and a seek(offset, os.SEEK_CUR) lands at the
\* cursor of that object plus offset, whatever calls on other objects over
\* the same descriptor came in between.
C14_SeekFromOwnCursor ==
    /\ (last.op = "read" /\ last.exc = "None" /\ last.arg[1] >= 0)
          => /\ last.ret = Slice(disk, hist.at, hist.at + last.arg[1])
             /\ shared[last.who]._pos = hist.at + Len(last.ret)
    /\ (last.op = "seek" /\ last.arg[2] = 1 /\ hist.at + last.arg[1] >= 0)
          => /\ last.exc = "None"
             /\ last.ret = <<hist.at + last.arg[1]>>
             /\ shared[last.who]._pos = hist.at + last.arg[1]

-----------------------------------------------------------------------------
(* Properties of the bytes the readers deliver *)

Prefix(a, b) == Len(a) <= Len(b) /\ a = SubSeq(b, 1, Len(a))

\* reader i has reached the end of its stream and has nothing buffered
AtEos(i) == parts[i]._eof /\ parts[i]._offset >= Len(parts[i]._readbuffer)

\* the readers whose position only their reads have moved
Plain == {i \in DOMAIN parts : ~out[i].sought}

\* the last call was a read() of a reader that was not closed
ReadOpen == last.op = "read" /\ ~hist.tclosed

\* C13: however the reads of several readers of one archive handle are
\* interleaved, what a reader has delivered is a prefix of the bytes of its
\* own entry and its logical position is the number of bytes it delivered,
\* as for a reader that is alone; and a read or seek of one reader changes
\* neither the state nor the delivered bytes of another reader.
C13_ReadersIndependent ==
    /\ [](\A i \in Plain :
             /\ Prefix(out[i].bytes, Payload(i))
             /\ ~parts[i].closed
                   => ZipFilePartRO_tell(parts[i]) = Len(out[i].bytes))
    /\ [][\A j \in DOMAIN parts :
             (last'.op \in {"read", "seek"} /\ last'.who # j)
                 => parts'[j] = parts[j] /\ out'[j] = out[j]]_vars

\* reader 1 reads its whole entry from the descriptor after reader 2, opened
\* later, has read and left the descriptor elsewhere
C13_Witness ==
    /\ Len(parts) = 2 /\ Plain = {1, 2} /\ out[2].bytes # <<>>
    /\ ReadOpen /\ last.who = 1 /\ last.exc = "None"
    /\ last.ret = Payload(1) /\ last.ret # <<>> /\ out[1].bytes = last.ret
    /\ hist.pos # parts[1]._orig_compress_start

\* C15: the reads of a reader deliver in total no more bytes than the
\* uncompressed size its entry declares, also when the entry declares a
\* larger compressed size and the source holds those bytes.
C15_ReadsWithinFileSize ==
    \A i \in Plain : Len(out[i].bytes) <= parts[i]._orig_file_size

\* an entry of declared sizes 2 (compressed) and 1 (uncompressed) whose two
\* bytes are in the source: one byte delivered, then a read(1) with nothing
C15_Witness ==
    /\ ReadOpen /\ last.who \in Plain /\ last.arg = <<1>>
    /\ parts[last.who]._orig_compress_size > parts[last.who]._orig_file_size
    /\ Len(Content(last.who)) = parts[last.who]._orig_compress_size
    /\ Len(out[last.who].bytes) = parts[last.who]._orig_file_size
    /\ last.ret = <<>> /\ last.exc = "None"

\* C16: a read(n) of an open reader that has reached the end of its stream
\* raises nothing and returns no bytes, for every n tried (negative
\* included), leaves the descriptor and the cursor of the shared file as
\* they were, and leaves tell() unchanged.
C16_ReadAtEndOfStream ==
    [][\A i \in DOMAIN parts :
          (/\ AtEos(i) /\ ~parts[i].closed
           /\ last'.op = "read" /\ last'.who = i)
              => /\ last'.exc = "None"
                 /\ last'.ret = <<>>
                 /\ fd' = fd
                 /\ parts'[i]._fileobj = parts[i]._fileobj
                 /\ ZipFilePartRO_tell(parts'[i])
                       = ZipFilePartRO_tell(parts[i])]_vars

\* a reader that has delivered its whole entry is read to the end again: it
\* returns nothing and the descriptor has not moved
C16_Witness ==
    /\ ReadOpen /\ last.who \in Plain /\ last.arg = <<-1>>
    /\ last.exc = "None" /\ last.ret = <<>>
    /\ AtEos(last.who) /\ ~parts[last.who].closed
    /\ out[last.who].bytes = Payload(last.who) /\ Payload(last.who) # <<>>
    /\ fd.pos = hist.pos

\* the data a list of members was written with for the name of reader i
Original(ms, i) ==
    ms[CHOOSE k \in DOMAIN ms : DecodeCp437(ms[k].cname).str = parts[i].name]
        .data

\* C18: on the well-formed archive of stored entries every name of
\* namelist() opens (the source being seekable), and a reader that only
\* reads, with one unbounded read or bounded reads, has at the end of its
\* stream delivered exactly uncompressed_size bytes: the bytes the entry was
\* written with, which are the compress_size bytes after the name and the
\* extra field of its local header.
C18_RoundTrip ==
    disk = GoodArchive =>
        /\ (OpenedLive /\ HasName(zf._name_to_info, last.arg) /\ fd.seekable)
              => last.exc = "None" /\ last.who = Len(parts)
        /\ {zf._name_to_info[k].filename : k \in DOMAIN zf._name_to_info}
              \subseteq {DecodeCp437(GoodMembers[k].cname).str :
                            k \in DOMAIN GoodMembers}
        /\ \A i \in Plain :
              AtEos(i) =>
                  /\ Len(out[i].bytes) = parts[i]._orig_file_size
                  /\ out[i].bytes = Original(GoodMembers, i)
                  /\ out[i].bytes = Content(i)

\* the two-byte entry read by two read(1), then the entry with an extra
\* field read by one read(): both readers have delivered their entry
C18_Witness ==
    /\ disk = GoodArchive /\ Len(parts) = 2 /\ Plain = {1, 2}
    /\ AtEos(1) /\ AtEos(2)
    /\ parts[1].name = <<97>> /\ out[1].bytes = <<104, 105>>
    /\ parts[2].name = <<98>> /\ out[2].bytes = <<111>>
    /\ ReadOpen /\ last.who = 2 /\ last.arg = <<-1>>

-----------------------------------------------------------------------------
(* Properties of seek() on a reader *)

\* the last call was a seek() of a reader that was not closed, over a source
\* that can seek, with one of the three values of whence
SeekOpen ==
    /\ last.op = "seek" /\ ~hist.tclosed
    /\ parts[last.who]._seekable /\ last.arg[2] \in {0, 1, 2}

\* the target of the last seek() before clamping (lines 1145-1153)
SeekTarget ==
    IF last.arg[2] = 0 THEN last.arg[1]
    ELSE IF last.arg[2] = 1 THEN hist.at + last.arg[1]
    ELSE parts[last.who]._orig_file_size + last.arg[1]

\* what read() returns from reader pt read to the end
Rest(pt, f) == ZipFilePartRO_read(pt, disk, f, -1).data

\* C17: a seek() of an open reader to a target beyond the end raises
\* nothing, returns uncompressed_size and leaves tell() there; to a target
\* before the start it raises nothing, returns 0 and leaves tell() at 0.
C17_SeekClamps ==
    SeekOpen =>
        /\ SeekTarget > parts[last.who]._orig_file_size
              => /\ last.exc = "None"
                 /\ last.ret = <<parts[last.who]._orig_file_size>>
                 /\ ZipFilePartRO_tell(parts[last.who])
                       = parts[last.who]._orig_file_size
        /\ SeekTarget < 0
              => /\ last.exc = "None"
                 /\ last.ret = <<0>>
                 /\ ZipFilePartRO_tell(parts[last.who]) = 0

\* C19: seek(tell()) of an open reader, in every state of the reader (just
\* opened, at the end of its stream), raises nothing, returns the position
\* the reader was at, and the reader then reads the bytes it would have read
\* without the seek.
C19_SeekToCurrent ==
    [][\A i \in DOMAIN parts :
          (/\ ~parts[i].closed /\ parts[i]._seekable
           /\ last'.op = "seek" /\ last'.who = i
           /\ last'.arg = <<ZipFilePartRO_tell(parts[i]), 0>>)
              => /\ last'.exc = "None"
                 /\ last'.ret = <<ZipFilePartRO_tell(parts[i])>>
                 /\ Rest(parts'[i], fd') = Rest(parts[i], fd)]_vars

\* the last call was a seek() of an open reader from its position p
\* (hist.at) to an absolute position q with 0 <= q < p
SoughtBack ==
    /\ SeekOpen /\ last.arg[2] = 0
    /\ last.arg[1] >= 0 /\ last.arg[1] < hist.at

\* C20: a reader at position p seeks backward to any q < p, which moves it
\* to q, and a seek forward to p again then leaves it reading the bytes that
\* a newly opened reader delivers from position p on.
C20_BackThenForward ==
    /\ [](SoughtBack => last.exc = "None" /\ last.ret = <<last.arg[1]>>)
    /\ [][(/\ SoughtBack
           /\ last'.op = "seek" /\ last'.who = last.who
           /\ last'.arg = <<hist.at, 0>>)
             => /\ last'.exc = "None"
                /\ Rest(parts'[last.who], fd')
                      = SliceFrom(Payload(last.who), hist.at)]_vars

\* C21: on a reader just opened over an entry of uncompressed size S,
\* seek(p) with 0 <= p <= S raises nothing, and a read(n) with n >= 0 that
\* follows returns min(n, S - p) bytes, those of the entry from p on.
C21_SeekThenRead ==
    [][\A i \in DOMAIN parts :
          (/\ ~parts[i].closed /\ parts[i]._seekable
           /\ out[i] = Fresh /\ parts[i]._readbuffer = <<>>
           /\ ZipFilePartRO_tell(parts[i]) = 0
           /\ last'.op = "seek" /\ last'.who = i /\ last'.arg[2] = 0
           /\ last'.arg[1] \in 0..parts[i]._orig_file_size)
              => /\ last'.exc = "None"
                 /\ \A n \in 0..(MaxReadArg + 1) :
                       ZipFilePartRO_read(parts'[i], disk, fd', n).data
                           = Slice(Payload(i), last'.arg[1],
                                   last'.arg[1] + n)]_vars

\* uncompressed_size + offset brought into 0..uncompressed_size for the
\* reader of the last call
EndTarget ==
    Max(Min(parts[last.who]._orig_file_size + last.arg[1],
            parts[last.who]._orig_file_size), 0)

\* C22: seek(offset, os.SEEK_END) of an open reader moves the reader to
\* uncompressed_size + offset brought into 0..uncompressed_size and returns
\* that position, whatever position the reader was at and whatever its
\* buffer and its count of remaining bytes were.
C22_SeekFromEnd ==
    (SeekOpen /\ last.arg[2] = 2)
        => /\ last.exc = "None"
           /\ last.ret = <<EndTarget>>
           /\ ZipFilePartRO_tell(parts[last.who]) = EndTarget

\* when seek(offset, os.SEEK_END) returns, it returns that position
SeekFromEndReturned ==
    (SeekOpen /\ last.arg[2] = 2 /\ last.exc = "None")
        => last.ret = <<EndTarget>>

-----------------------------------------------------------------------------
(* Properties of a closed reader *)

\* C23: after close() of a reader every read(n), seek(offset, whence) and
\* tell() of it raises ValueError and leaves the reference count and the
\* position of the descriptor as they were.
C23_ClosedReaderFails ==
    (last.op \in {"read", "seek", "tell"} /\ hist.tclosed)
        => /\ last.exc = "ValueError"
           /\ zf._file_ref_count = hist.ref
           /\ fd.pos = hist.pos /\ fd.closes = hist.closes

\* tell() of a closed reader over a source that can seek, while another
\* reader is open on the descriptor
C23_Witness ==
    /\ last.op = "tell" /\ hist.tclosed /\ last.exc = "ValueError"
    /\ parts[last.who].closed /\ parts[last.who]._seekable
    /\ OpenParts # {} /\ zf._file_ref_count = hist.ref /\ hist.ref >= 1
    /\ ~fd.closed

-----------------------------------------------------------------------------
(* Properties of the end-of-archive locator and of the entry table, checked *)
(* under DirectorySpec                                                     *)

\* the last _END_ARCHIVE_SIZE bytes of the source
LastBytes == SliceFrom(disk, Max(Len(disk) - _END_ARCHIVE_SIZE, 0))

\* the source ends with an end record whose comment length is zero
EndsWithRecord ==
    /\ Len(LastBytes) = _END_ARCHIVE_SIZE
    /\ SubSeq(LastBytes, 1, 4) = _END_ARCHIVE_STRING
    /\ SubSeq(LastBytes, 21, 22) = <<0, 0>>

\* the start of the window the backward scan reads (line 338)
WindowStart == Max(Len(disk) - ZIP_MAX_COMMENT_WINDOW - _END_ARCHIVE_SIZE, 0)

\* what the backward scan of _extract_end_archive (lines 338-362) returns on
\* the source
Scanned ==
    _extract_end_archive_search(disk, Len(disk), WindowStart,
        FileRead(disk, [fd EXCEPT !.pos = WindowStart], -1))

\* the last call was _extract_end_archive on a source that ends with an end
\* record without comment: the fast path returned
Located == last.op = "locate" /\ EndsWithRecord

\* C24 as stated: on every source that ends with an end record whose comment
\* length is zero, the fast path of _extract_end_archive returns the record
\* that the backward scan returns on that source.
C24_FastPathIsScan ==
    Located => last.exc = Scanned.exc /\ last.ret = <<Scanned.endrec>>

\* C24: on every source that ends with an end record whose comment length
\* is zero and whose last 22 bytes hold the end signature at their start
\* only, the fast path of _extract_end_archive returns the record that the
\* backward scan returns on that source: same fields, empty comment, same
\* offset.
C24_FastPathIsScanOfPlainRecord ==
    (Located /\ Rfind(LastBytes, _END_ARCHIVE_STRING) = 0)
        => last.exc = Scanned.exc /\ last.ret = <<Scanned.endrec>>

\* the fast path on an archive with ZIP64 end records after a prefix: the
\* record is found, at the place of the end record
C24_Witness ==
    /\ Located /\ Rfind(LastBytes, _END_ARCHIVE_STRING) = 0
    /\ disk = Zip64Archive(MaxPrefix, 0)
    /\ last.exc = "None" /\ ~last.ret[1].none
    /\ last.ret[1].sig = _END_ARCHIVE64_STRING
    /\ last.ret[1].comment = <<>>
    /\ last.ret[1].location = Len(disk) - _END_ARCHIVE_SIZE

\* the last call, _extract_end_archive, returned the record at offset at
\* with these fields
Found(at, size_cd, offset_cd, comment) ==
    /\ last.exc = "None" /\ ~last.ret[1].none
    /\ last.ret[1].location = at
    /\ last.ret[1].size = size_cd
    /\ last.ret[1].offset = offset_cd
    /\ last.ret[1].comment = comment

Zip64Bytes == _END_ARCHIVE64_SIZE + _END_ARCHIVE64_LOCATOR_SIZE

Declared(ms, i) == Len(BodyBytes(SubSeq(ms, 1, i - 1)))

\* C26: for the archive after N bytes of other data, with or without ZIP64
\* end records, the directory starts at its declared offset plus N and
\* every header_offset of the entry table is the declared offset of the
\* entry's local header plus N (the concatenation offset is N).
C26_PrefixShiftsOffsets ==
    \A N \in 0..MaxPrefix, k \in 0..MaxComment :
        (last.op # "none" /\ pc # "new"
         /\ disk \in {PlainArchive(N, k), Zip64Archive(N, k)})
            => /\ pc = "live"
               /\ zf._start_dir = Len(GoodBody) + N
               /\ zf._start_dir - Len(GoodBody) = N
               /\ Len(zf._name_to_info) = Len(GoodMembers)
               /\ \A i \in DOMAIN zf._name_to_info :
                     zf._name_to_info[i].header_offset
                         = Declared(GoodMembers, i) + N

\* the archive with ZIP64 end records after the longest prefix is open and
\* its second entry is at its declared offset plus the prefix
C26_Witness ==
    /\ pc = "live" /\ last.op = "init" /\ last.exc = "None"
    /\ disk = Zip64Archive(MaxPrefix, MaxComment) /\ MaxPrefix > 0
    /\ zf._start_dir = Len(GoodBody) + MaxPrefix
    /\ zf._name_to_info[2].header_offset
          = Declared(GoodMembers, 2) + MaxPrefix
    /\ Declared(GoodMembers, 2) > 0

\* C27: constructing a handle over a source that holds no end signature
\* raises BadZipFile, and the client gets no handle to call open() on.
C27_NoSignatureNoHandle ==
    Rfind(disk, _END_ARCHIVE_STRING) < 0
        => /\ pc # "live"
           /\ last.op = "init"
                 => /\ last.exc = "BadZipFile" /\ pc = "failed"
                    /\ zf._file = "None" /\ zf._file_ref_count = 0

\* a source of more than 22 bytes without the signature: the fast path and
\* the scan have both run and the constructor raised
C27_Witness ==
    /\ last.op = "init" /\ last.exc = "BadZipFile" /\ pc = "failed"
    /\ Rfind(disk, _END_ARCHIVE_STRING) < 0
    /\ Len(disk) > _END_ARCHIVE_SIZE /\ fd.kind = "file"
    /\ zf._file = "None"

\* C28: a seek or read that fails or falls short while the ZIP64 locator or
\* the ZIP64 end record is looked for counts as no ZIP64 records: on a
\* source with a ZIP64 locator and too few bytes before it for a ZIP64 end
\* record, the end record is returned as it is and the handle is
\* constructed (an empty archive after the bytes before the end record).
C28_Zip64ProbeFailureIgnored ==
    \A N \in 0..MaxPrefix :
        disk = TruncatedArchive(N)
            => /\ last.op = "locate"
                  => Found(N + _END_ARCHIVE64_LOCATOR_SIZE, 0, 0, <<>>)
               /\ last.op = "init"
                  => /\ last.exc = "None" /\ pc = "live"
                     /\ zf._start_dir = N + _END_ARCHIVE64_LOCATOR_SIZE
                     /\ zf._name_to_info = <<>>

\* C29: constructing a handle over an archive whose end records declare
\* more than one disk or a disk number other than 0 raises
\* NotImplementedError, the error of the unsupported features.
C29_MultiDiskUnsupported ==
    (last.op = "init" /\ disk \in MultiDiskArchives)
        => last.exc = "NotImplementedError" /\ pc = "failed"

\* the names of the members ms in the order of their first occurrence
RECURSIVE FirstNames(_)
FirstNames(ms) ==
    IF ms = <<>> THEN <<>>
    ELSE LET head == FirstNames(SubSeq(ms, 1, Len(ms) - 1))
             name == DecodeCp437(ms[Len(ms)].cname).str
         IN  IF \E i \in DOMAIN head : head[i] = name THEN head
             ELSE Append(head, name)

\* the place in ms of the last member of that name
LastOf(ms, name) ==
    CHOOSE j \in DOMAIN ms :
        /\ DecodeCp437(ms[j].cname).str = name
        /\ \A l \in DOMAIN ms :
              DecodeCp437(ms[l].cname).str = name => l <= j

\* the entry table of the archive written from members ms
TableOf(ms) ==
    [i \in DOMAIN FirstNames(ms) |->
        ZipInfoRO(FirstNames(ms)[i], ms[LastOf(ms, FirstNames(ms)[i])].cflags,
                  Declared(ms, LastOf(ms, FirstNames(ms)[i])),
                  ms[LastOf(ms, FirstNames(ms)[i])].csize,
                  ms[LastOf(ms, FirstNames(ms)[i])].usize)]

\* C30: namelist() and infolist() list the entry table in the order of the
\* directory, each name once; for a name that the directory holds several
\* times the entry is that of its last occurrence (header offset, sizes,
\* flags), and the duplicate raises nothing.
C30_DirectoryOrderLastWins ==
    \A ms \in {GoodMembers, DuplicateMembers} :
        disk = ArchiveBytes(<<>>, ms, <<>>)
            => /\ last.op = "init" => last.exc = "None"
               /\ pc = "live" => zf._name_to_info = TableOf(ms)
               /\ last.op = "namelist"
                     => last.exc = "None" /\ last.ret = FirstNames(ms)
               /\ last.op = "infolist"
                     => last.exc = "None" /\ last.ret = TableOf(ms)

\* infolist() of the archive with a name twice: two entries, the first of
\* them with the sizes and the offset of the third member
C30_Witness ==
    /\ disk = DuplicateArchive /\ last.op = "infolist" /\ last.exc = "None"
    /\ Len(last.ret) = 2
    /\ last.ret[1].filename = <<97>> /\ last.ret[1].file_size = 3
    /\ last.ret[1].header_offset = Declared(DuplicateMembers, 3)
    /\ last.ret[2].filename = <<98>>

-----------------------------------------------------------------------------
(* Properties of peek() and of the counters of a reader *)

\* what read(n) of reader pt raises and returns
ReadOutcome(pt, f, n) ==
    [exc |-> ZipFilePartRO_read(pt, disk, f, n).exc,
     data |-> ZipFilePartRO_read(pt, disk, f, n).data]

\* a step that is a peek() of reader i, which was not closed
PeekOf(i) == ~parts[i].closed /\ last'.op = "peek" /\ last'.who = i

\* C31 as stated: no peek(n) of an open reader advances the cursor: tell()
\* is the same before and after it, the bytes it returns are the first
\* bytes a following read returns, and every read(n) after it raises and
\* returns what it would have without the peek.
C31_PeekNeverAdvances ==
    [][\A i \in DOMAIN parts :
          PeekOf(i)
              => /\ ZipFilePartRO_tell(parts'[i]) = ZipFilePartRO_tell(parts[i])
                 /\ ReadOutcome(parts'[i], fd', Len(last'.ret))
                       = [exc |-> "None", data |-> last'.ret]
                 /\ \A n \in ReadArgs :
                       ReadOutcome(parts'[i], fd', n)
                           = ReadOutcome(parts[i], fd, n)]_vars

\* C31: a peek(n) of an open reader that raises nothing does not advance
\* the cursor: tell() is the same before and after it, the bytes it returns
\* are the first bytes a following read returns, and every read(n) after it
\* raises and returns what it would have without the peek.
C31_ReturningPeekKeepsCursor ==
    [][\A i \in DOMAIN parts :
          (PeekOf(i) /\ last'.exc = "None")
              => /\ ZipFilePartRO_tell(parts'[i]) = ZipFilePartRO_tell(parts[i])
                 /\ ReadOutcome(parts'[i], fd', Len(last'.ret))
                       = [exc |-> "None", data |-> last'.ret]
                 /\ \A n \in ReadArgs :
                       ReadOutcome(parts'[i], fd', n)
                           = ReadOutcome(parts[i], fd, n)]_vars

\* a reader that has delivered a byte peeks for more bytes than are
\* buffered: the bytes the peek read are put back before the buffered rest
C31_Witness ==
    /\ last.op = "peek" /\ last.exc = "None" /\ ~hist.tclosed
    /\ last.who \in Plain /\ out[last.who].bytes # <<>>
    /\ last.ret # <<>> /\ Len(last.ret) < last.arg[1]
    /\ ZipFilePartRO_tell(parts[last.who]) = hist.at
    /\ parts[last.who]._offset = 0
    /\ parts[last.who]._readbuffer = last.ret

\* the counters of reader i are within the sizes its entry declares
Bounded(i) ==
    /\ 0 <= parts[i]._offset
    /\ parts[i]._offset <= Len(parts[i]._readbuffer)
    /\ 0 <= parts[i]._left
    /\ parts[i]._left <= parts[i]._orig_file_size
    /\ 0 <= parts[i]._compress_left
    /\ parts[i]._compress_left <= parts[i]._orig_compress_size
    /\ 0 <= ZipFilePartRO_tell(parts[i])
    /\ ZipFilePartRO_tell(parts[i]) <= parts[i]._orig_file_size

-----------------------------------------------------------------------------
(* Properties of the parse of the directory and of a failed construction *)

\* C32: constructing a handle over an archive whose directory holds a
\* record of another signature than PK\x01\x02, or ends fewer than 46 bytes
\* into a record, raises BadZipFile, also after records that were decoded,
\* and the client gets no handle.
C32_DamagedDirectoryRejected ==
    disk \in DamagedArchives
        => /\ pc \in {"new", "failed"}
           /\ last.op = "init"
                 => /\ last.exc = "BadZipFile"
                    /\ zf._file = "None" /\ zf._file_ref_count = 0

\* the second record of the directory has another signature: the first was
\* decoded into the table and the constructor raised
C32_Witness ==
    /\ disk \in DamagedArchives /\ last.op = "init"
    /\ last.exc = "BadZipFile" /\ pc = "failed"
    /\ Len(zf._name_to_info) = 1
    /\ zf._name_to_info[1].filename = FirstNames(GoodMembers)[1]

\* C39: the parse of the directory ends for every declared size of the
\* directory: it raises BadZipFile or returns a table, each record of which
\* took at least 46 bytes of a total that was below the declared size when
\* the record was read; a last record whose name, extra field or comment
\* length runs past the declared size is accepted and the table is that of
\* the well-formed archive.
C39_ParseEndsAndAcceptsOverrun ==
    /\ \A size \in 0..Len(GoodDir) :
          (disk = ShortenedArchive(size) /\ pc # "new")
              => /\ last.op = "init" => last.exc \in {"None", "BadZipFile"}
                 /\ pc = "live"
                       => /\ (Len(zf._name_to_info) - 1) * _CENTRAL_DIR_SIZE
                                < size
                          /\ zf._start_dir + size = Len(GoodBody \o GoodDir)
    /\ (disk \in OverrunArchives /\ pc # "new")
           => /\ pc = "live"
              /\ last.op = "init" => last.exc = "None"
              /\ zf._name_to_info = TableOf(GoodMembers)

\* the last record declares an extra field of 3 bytes that the directory
\* does not hold: both entries are in the table
C39_Witness ==
    /\ disk = DirectoryArchive(Overrun(30, 3))
    /\ last.op = "init" /\ last.exc = "None" /\ pc = "live"
    /\ Len(zf._name_to_info) = 2
    /\ UnpackH(disk, zf._start_dir + Len(FirstRecord) + 30) = 3
    /\ zf._start_dir + Len(FirstRecord) + _CENTRAL_DIR_SIZE + 1
          = Len(GoodBody \o GoodDir)

\* C40: a constructor that raises leaves the handle with no reference and
\* no file: the reference count is 0, a descriptor the handle opened itself
\* has been closed once, a source the client passed has not been closed;
\* and a later close() of that handle raises nothing and changes neither
\* the handle nor the descriptor.
C40_FailedConstructionReleases ==
    /\ [](pc = "failed"
             => /\ zf._file_ref_count = 0 /\ zf._file = "None"
                /\ fd.closes = (IF fd.external THEN 0 ELSE 1)
                /\ fd.closed = ~fd.external
                /\ last.op = "init" => last.exc # "None" /\ hist.closes = 0)
    /\ [][(pc = "failed" /\ last'.op = "zclose")
             => last'.exc = "None" /\ zf' = zf /\ fd' = fd]_vars

\* close() of a handle whose construction over a path failed on a damaged
\* directory: the descriptor was closed once, by the constructor
C40_Witness ==
    /\ pc = "failed" /\ last.op = "zclose" /\ last.exc = "None"
    /\ disk \in DamagedArchives /\ ~fd.external
    /\ fd.closes = 1 /\ hist.closes = 1 /\ hist.ref = 0
    /\ zf._name_to_info # <<>>

-----------------------------------------------------------------------------
(* Properties of the checks of the local header in open() *)

\* the name stored in that local header can be decoded by the rule of the
\* header's flag bits
HeaderDecodes(zinfo) ==
    LET o == zinfo.header_offset
        h == Slice(disk, o, o + _FILE_HEADER_SIZE)
        n == Slice(disk, o + _FILE_HEADER_SIZE,
                   o + _FILE_HEADER_SIZE + UnpackH(h, 26))
    IN  (UnpackH(h, 6) \div 2048) % 2 = 1 => DecodeUtf8(n).exc = "None"

\* C33 as stated: open() returns a reader only if the local header of the
\* entry is complete, has the signature PK\x03\x04 and stores a name that,
\* decoded as UTF-8 when bit 11 of the header's flags is set and as cp437
\* otherwise, is the name of the directory entry; otherwise it raises
\* BadZipFile.
C33_HeaderNameChecked ==
    (OpenedLive /\ HasName(zf._name_to_info, last.arg)) =>
        /\ last.exc = "None" => HeaderIntact(Named) /\ HeaderNamed(Named)
        /\ ~(HeaderIntact(Named) /\ HeaderNamed(Named))
              => last.exc = "BadZipFile"

\* C33: open() returns a reader only if the local header of the entry is
\* complete, has the signature PK\x03\x04 and stores a name that, decoded
\* as UTF-8 when bit 11 of the header's flags is set and as cp437
\* otherwise, is the name of the directory entry; an incomplete header or
\* another signature raises BadZipFile; another name raises
\* NotImplementedError when flag bit 5 or 6 of the directory entry is set,
\* else UnicodeDecodeError when its bytes cannot be decoded, else
\* BadZipFile.
C33_HeaderNameCheckedAfterFlags ==
    (OpenedLive /\ HasName(zf._name_to_info, last.arg)) =>
        /\ last.exc = "None" => HeaderIntact(Named) /\ HeaderNamed(Named)
        /\ ~HeaderIntact(Named) => last.exc = "BadZipFile"
        /\ (HeaderIntact(Named) /\ ~HeaderNamed(Named))
              => last.exc =
                    IF FlagBit(Named, 5) \/ FlagBit(Named, 6)
                    THEN "NotImplementedError"
                    ELSE IF ~HeaderDecodes(Named) THEN "UnicodeDecodeError"
                    ELSE "BadZipFile"

\* an entry whose header stores its name in two bytes of UTF-8 and whose
\* directory record stores it in one byte of cp437 is opened
C33_Witness ==
    /\ OpenedLive /\ last.exc = "None" /\ last.who > 0
    /\ HeaderIntact(Named) /\ HeaderNamed(Named)
    /\ UnpackH(disk, Named.header_offset + 6) = _MASK_UTF_FILENAME
    /\ UnpackH(disk, Named.header_offset + 26) = 2
    /\ Len(Named.filename) = 1
    /\ ~HasBit(Named.flag_bits, _MASK_UTF_FILENAME)

-----------------------------------------------------------------------------
(* Properties of a seek() among the buffered bytes, of the bytes a reader  *)
(* asks the source for, and of entries with differing or short sizes       *)

\* the position seek(offset, whence) of reader pt aims at, brought into
\* 0..file_size (lines 1144-1159)
Aim(pt, offset, whence) ==
    LET target == IF whence = 0 THEN offset
                  ELSE IF whence = 1 THEN ZipFilePartRO_tell(pt) + offset
                  ELSE pt._orig_file_size + offset
    IN  Max(Min(target, pt._orig_file_size), 0)

\* the logical position of the first byte of the buffer of reader pt
BufferStart(pt) == ZipFilePartRO_tell(pt) - pt._offset

\* position t is that of a byte in the buffer of reader pt
Buffered(pt, t) ==
    BufferStart(pt) <= t /\ t < BufferStart(pt) + Len(pt._readbuffer)

\* C34: a seek() of an open reader to a position whose byte is in the
\* buffer raises nothing, returns that position, sets _offset to the place
\* of the byte in the buffer and changes nothing else: not the descriptor,
\* not the cursor of the shared file, not the buffer, the two counters or
\* the end-of-stream flag; tell() is then the position.
C34_SeekWithinBuffer ==
    [][\A i \in DOMAIN parts :
          (/\ ~parts[i].closed /\ parts[i]._seekable
           /\ last'.op = "seek" /\ last'.who = i /\ last'.arg[2] \in {0, 1, 2}
           /\ Buffered(parts[i], Aim(parts[i], last'.arg[1], last'.arg[2])))
              => /\ last'.exc = "None"
                 /\ last'.ret = <<Aim(parts[i], last'.arg[1], last'.arg[2])>>
                 /\ parts'[i] =
                       [parts[i] EXCEPT !._offset =
                           Aim(parts[i], last'.arg[1], last'.arg[2])
                               - BufferStart(parts[i])]
                 /\ fd' = fd
                 /\ ZipFilePartRO_tell(parts'[i])
                       = Aim(parts[i], last'.arg[1], last'.arg[2])]_vars

\* a reader that has delivered one of its two buffered bytes seeks back to
\* the start: the descriptor has not moved and the reader is at 0 with both
\* bytes to deliver
C34_Witness ==
    /\ SeekOpen /\ last.exc = "None" /\ last.arg = <<0, 0>>
    /\ hist.at = 1 /\ last.ret = <<0>>
    /\ ZipFilePartRO_tell(parts[last.who]) = 0
    /\ parts[last.who]._offset = 0
    /\ Len(parts[last.who]._readbuffer) = 2
    /\ fd.pos = hist.pos
    /\ Rest(parts[last.who], fd) = Payload(last.who)

\* the position after the local header, name and extra field of the entry
\* of reader i, from the header the directory entry of that name points at
DataStart(i) ==
    LET o == DictGet(zf._name_to_info, parts[i].name).header_offset
    IN  o + _FILE_HEADER_SIZE + UnpackH(disk, o + 26) + UnpackH(disk, o + 28)

\* C36: whatever reads and peeks are made of a reader, and of other
\* readers in between, the cursor of its shared file starts at the position
\* after the local header, name and extra field and stands compress_size
\* minus _compress_left bytes after it, with 0 <= _compress_left: the bytes
\* it asks the source for are bytes of [data_start, data_start +
\* compress_size); and a call of the reader that moves the descriptor
\* leaves it at that cursor, within the range.
C36_ReadsWithinEntry ==
    /\ [](\A i \in DOMAIN parts :
             /\ parts[i]._orig_compress_start = DataStart(i)
             /\ parts[i]._compress_left >= 0
             /\ parts[i]._compress_left <= parts[i]._orig_compress_size
             /\ parts[i]._fileobj._pos + parts[i]._compress_left
                   = DataStart(i) + parts[i]._orig_compress_size)
    /\ [][\A i \in DOMAIN parts :
             (last'.op \in {"read", "peek"} /\ last'.who = i /\ fd' # fd)
                 => /\ fd'.pos = parts'[i]._fileobj._pos
                    /\ fd'.pos >= parts[i]._fileobj._pos
                    /\ fd'.pos <= DataStart(i) + parts[i]._orig_compress_size
                    /\ \A j \in DOMAIN parts :
                          j # i => parts'[j] = parts[j]]_vars

\* the first reader reads its entry after the second reader has left the
\* descriptor elsewhere: the descriptor ends where the local header of the
\* following entry starts
C36_Witness ==
    /\ Len(parts) = 2 /\ last.op = "read" /\ last.who = 1
    /\ last.exc = "None" /\ last.ret = Content(1) /\ last.ret # <<>>
    /\ out[2].bytes # <<>>
    /\ hist.pos > DataStart(1) + parts[1]._orig_compress_size
    /\ fd.pos = DataStart(1) + parts[1]._orig_compress_size
    /\ Slice(disk, fd.pos, fd.pos + 4) = _FILE_HEADER_STRING

\* reader i is of an entry that declares differing sizes, and only reads
\* and peeks have moved it
Mismatched(i) ==
    /\ i \in Plain /\ ~parts[i].closed
    /\ parts[i]._orig_compress_size # parts[i]._orig_file_size

\* the fewer of the two declared sizes of the entry of reader i
Fewer(i) == Min(parts[i]._orig_compress_size, parts[i]._orig_file_size)

Exhausted(pt) ==
    /\ ~pt._eof /\ pt._compress_left > 0
    /\ pt._fileobj._pos >= Len(disk)

\* read(n) of reader pt asks for more than the bytes of its buffer
Needs(pt, n) == n < 0 \/ n > Len(pt._readbuffer) - pt._offset

\* the bytes the source holds of the declared range of the entry of
\* reader i
Held(i) == Len(Slice(disk, DataStart(i),
                     DataStart(i) + parts[i]._orig_compress_size))

\* C38: a read() of an open reader that needs bytes of the source when the
\* source has none at the reader's cursor and _compress_left is positive
\* raises EOFError and returns nothing, and leaves _compress_left, _left, the
\* end-of-stream flag and the cursor as they were; and after every read()
\* that raises EOFError the two counters are the declared sizes less the
\* bytes that the source held of the entry, _compress_left still positive.
C38_ShortSourceRaisesEOFError ==
    [][\A i \in DOMAIN parts :
          (~parts[i].closed /\ last'.op = "read" /\ last'.who = i)
              => /\ (Exhausted(parts[i]) /\ Needs(parts[i], last'.arg[1]))
                       => /\ last'.exc = "EOFError" /\ last'.ret = <<>>
                          /\ parts'[i]._compress_left
                                = parts[i]._compress_left
                          /\ parts'[i]._left = parts[i]._left
                          /\ parts'[i]._eof = parts[i]._eof
                          /\ parts'[i]._fileobj = parts[i]._fileobj
                 /\ last'.exc = "EOFError"
                       => /\ last'.ret = <<>>
                          /\ parts'[i]._compress_left
                                = parts[i]._orig_compress_size - Held(i)
                          /\ parts'[i]._compress_left > 0
                          /\ parts'[i]._left
                                = parts[i]._orig_file_size - Held(i)
                          /\ ~parts'[i]._eof]_vars

\* a reader of an entry that declares 3 bytes of which the source holds 2
\* has delivered the 2 bytes and is read again: EOFError, one byte left by
\* both counters as before the read
C38_Witness ==
    /\ ReadOpen /\ last.exc = "EOFError" /\ last.arg = <<1>>
    /\ last.who \in Plain /\ Len(out[last.who].bytes) = 2
    /\ out[last.who].bytes = Content(last.who)
    /\ parts[last.who]._orig_compress_size = 3
    /\ parts[last.who]._compress_left = 1 /\ parts[last.who]._left = 1
    /\ parts[last.who]._fileobj._pos = Len(disk)
    /\ fd.pos = Len(disk)

====
